---------------------------- MODULE Spec2Model ----------------------------
(***************************************************************************)
(* State-machine model of the NIDS pipeline.                               *)
(*                                                                         *)
(*   backend/api.py       the Flask process: the retained window           *)
(*                        LIVE_PACKET_LOG, the alert list ALERT_HISTORY,   *)
(*                        the id counter LAST_PACKET_ID and CONFIG         *)
(*   backend/sniffer.py   the capture process: its settings, the emitter   *)
(*                        buffer LIVE_PACKETS and the sender thread        *)
(*   backend/extractor.py extract_features / packet_to_log_data            *)
(*   backend/ml_engine.py MLEngine: the loaded model and predict           *)
(*                                                                         *)
(* Numbers.  A classifier confidence and a sensitivity are floats in the   *)
(* code; here they are integers counting units of 1/Scale.  The record     *)
(* field 'confidence' is the string f'{confidence:.4f}'; it is modelled by *)
(* the integer number of 1/10000 units that the string spells.             *)
(* A missing dictionary key, and Python's None, are the value Absent.      *)
(***************************************************************************)
EXTENDS Integers, Sequences, FiniteSets, TLC

VARIABLES
    LIVE_PACKET_LOG,  \* api.py: the retained window, a sequence of records
    ALERT_HISTORY,    \* api.py: the alert list
    LAST_PACKET_ID,   \* api.py: the id counter
    CONFIG,           \* api.py: CONFIG['sensitivity']
    settings_file,    \* storage/settings.json on disk
    model_file,       \* models/rf_model.pkl on disk
    threads,          \* api.py: the requests being served, one per server thread
    sniffer_pc,       \* "down" before sniffer.py is imported, then "running",
                      \* "stopped" once sniff() has returned or raised
    SETTINGS,         \* sniffer.py: SETTINGS (and CONFIG, which has the same value)
    ml_model,         \* sniffer.py: ml_engine.model
    LIVE_PACKETS,     \* sniffer.py: the emitter buffer
    sender_pc,        \* sniffer.py: position of the sender thread in send_traffic_batch
    batch_to_send,    \* sniffer.py: the batch taken by the sender thread
    lock,             \* sniffer.py: the holder of lock: "free", "capture", "sender"
    capture_pc,       \* sniffer.py: position of the capture thread in process_packet
    pending,          \* sniffer.py: the log_entry process_packet is about to append
    appended,         \* history: every record appended to LIVE_PACKETS, in order
    attempts,         \* history: every batch given to requests.post, with its outcome
    timer_fired,      \* history: the sender thread has called send_traffic_batch
    captured,         \* history: the packets handed to process_packet, in order
    judged,           \* history: for each of them, the classifier's answer and the
                      \* sensitivity process_packet read (empty if it read none)
    arrived,          \* history: every record appended to LIVE_PACKET_LOG, in order
    trace,            \* history: what the last operation was given and what it answered
    nFailed           \* history: how many ingest requests answered 400

vars == << LIVE_PACKET_LOG, ALERT_HISTORY, LAST_PACKET_ID, CONFIG, settings_file,
           model_file, threads, sniffer_pc, SETTINGS, ml_model, LIVE_PACKETS, sender_pc,
           batch_to_send, lock, capture_pc, pending, appended, attempts, timer_fired,
           captured, judged, arrived, trace, nFailed >>

apiVars == << LIVE_PACKET_LOG, ALERT_HISTORY, LAST_PACKET_ID >>

snifferVars == << sniffer_pc, SETTINGS, ml_model, LIVE_PACKETS, sender_pc,
                  batch_to_send, lock, capture_pc, pending, appended, attempts,
                  timer_fired, captured, judged >>

\* The emitter's lock and the capture thread's position.
lockVars == << lock, capture_pc, pending >>

-----------------------------------------------------------------------------
(* Values *)

Absent == 0 - 1

\* extractor.py:55: '.4f' spells a confidence in units of 1/10000.
Places4 == 10000

\* One unit of a float confidence or sensitivity is 1/Scale, a tenth of that.
Scale == 10 * Places4

\* api.py:42
MAX_LIVE_PACKETS == 50

\* api.py:20 and sniffer.py:35,77: the default sensitivity 0.5
DEFAULT_SENSITIVITY == 50000

Min(a, b) == IF a < b THEN a ELSE b
Max(a, b) == IF a > b THEN a ELSE b

\* Python's list[-n:] for n > 0: the last n elements, all of them if there are fewer.
LastN(s, n) == SubSeq(s, Max(1, Len(s) - n + 1), Len(s))

\* f'{confidence:.4f}': the nearest multiple of 1/10000, as the number of such units.
\* (No modelled confidence lies halfway between two multiples.)
Format4f(c) == (c + 5) \div (Scale \div Places4)

\* An IP address is modelled by a host number.
\* One element of a JSON request body.  kind "dict" is a JSON object, kind
\* "nondict" any other JSON value (a number, a string, a list).  A field holding
\* Absent is a key the object does not have.
Entry(kind, id, timestamp, src_ip, classification, confidence) ==
    [ kind |-> kind, id |-> id, timestamp |-> timestamp, src_ip |-> src_ip,
      classification |-> classification, confidence |-> confidence ]

NonDict == Entry("nondict", Absent, Absent, Absent, "", Absent)

\* What the last operation was given and what it answered:
\*   op, arg, status   the operation, its argument, the HTTP status (0 if none)
\*   given, ids        ingest: the ids the producer supplied, the ids returned
\*   asked             predict: how the classifier was going to behave
\*   coins             ingest, answered 201: for each entry whether
\*                     random.random() < 0.5 held
\*   sent, counter     ingest: the entries of the request body, and
\*                     LAST_PACKET_ID when the request started
\*   details           get_packet_details: the record returned, if any;
\*                     process_packet: the log entry appended, if any
\*   was, action       handle_alert_action: the status the alert had before,
\*                     and the 'action' of the request body
\*   logs              get_live_traffic: the records returned
\*   alerts            get_alerts_history: the alerts returned
\*   classification_stats, protocol_stats, ip_stats
\*                     get_analytics_trends: the three lists of (key, count)
\*   features, calls   process_packet: the feature vector (empty for None) and
\*                     the number of calls of ml_engine.predict
\*   raw, sensitivity, final
\*                     process_packet: the classifier's answer, the sensitivity
\*                     read, and (classification, confidence) after thresholding
Answer(op, arg, status) ==
    [ op |-> op, arg |-> arg, status |-> status, given |-> << >>, ids |-> << >>,
      details |-> << >>, was |-> "", features |-> << >>, calls |-> 0,
      raw |-> << >>, sensitivity |-> Absent, final |-> << >>,
      sent |-> << >>, counter |-> Absent, asked |-> << >>, logs |-> << >>,
      coins |-> << >>, alerts |-> << >>, action |-> "",
      classification_stats |-> << >>, protocol_stats |-> << >>, ip_stats |-> << >> ]

-----------------------------------------------------------------------------
(* backend/api.py *)

\* get_live_logs
get_live_logs == LIVE_PACKET_LOG

\* Mutant: every alert is returned, whatever its status.
get_alert_history_all == ALERT_HISTORY

\* get_alert_history
get_alert_history == SelectSeq(ALERT_HISTORY, LAMBDA a : a.status = "New")

\* Mutant: the lookup searches every record ever stored, not the retained window.
get_packet_by_id_history(packet_id) ==
    LET hits == SelectSeq(arrived, LAMBDA p : p.id = packet_id)
    IN  IF hits = << >> THEN << >> ELSE << Head(hits) >>

\* get_packet_by_id: the first record of the window with that id, as a sequence of
\* at most one record (empty for None).
get_packet_by_id(packet_id) ==
    LET hits == SelectSeq(LIVE_PACKET_LOG, LAMBDA p : p.id = packet_id)
    IN  IF hits = << >> THEN << >> ELSE << Head(hits) >>

\* Mutant: the alert takes the id of its record as alert_id.
NewAlert_packet(alerts, packet_id, log_entry) ==
    [ alert_id   |-> packet_id,
      packet_id  |-> packet_id,
      timestamp  |-> log_entry.timestamp,
      src_ip     |-> log_entry.src_ip,
      confidence |-> IF log_entry.confidence = Absent THEN 9000
                     ELSE log_entry.confidence,
      status     |-> "New" ]

\* The alert ingest_packet appends for log_entry (api.py:159-167 and 181-189).
NewAlert(alerts, packet_id, log_entry) ==
    [ alert_id   |-> Len(alerts) + 1,
      packet_id  |-> packet_id,
      timestamp  |-> log_entry.timestamp,
      src_ip     |-> log_entry.src_ip,
      confidence |-> IF log_entry.confidence = Absent THEN 9000
                     ELSE log_entry.confidence,
      status     |-> "New" ]

\* Reading log_entry['timestamp'] or log_entry['src_ip'] raises KeyError.
AlertRaises(log_entry) == log_entry.timestamp = Absent \/ log_entry.src_ip = Absent

\* Mutant: an id the producer supplied is kept (log_entry.setdefault('id', ...)).
AssignId_keep(log_entry, id) ==
    IF log_entry.id # Absent THEN log_entry ELSE [ log_entry EXCEPT !.id = id ]

\* log_entry['id'] = LAST_PACKET_ID
AssignId(log_entry, id) == [ log_entry EXCEPT !.id = id ]

\* Mutant: the id list gets the counter as it was before the increment.
BatchStep_stale(st, log_entry, coin) ==
    LET last == st.last + 1
    IN  IF log_entry.kind # "dict"
        THEN [ st EXCEPT !.last = last, !.ok = FALSE ]
        ELSE LET rec == AssignId(log_entry, last)
                 st1 == [ st EXCEPT !.last = last,
                                    !.log = Append(st.log, rec),
                                    !.ids = Append(st.ids, st.last) ]
             IN  IF ~coin THEN st1
                 ELSE IF AlertRaises(rec) THEN [ st1 EXCEPT !.ok = FALSE ]
                 ELSE [ st1 EXCEPT !.alerts = Append(st.alerts, NewAlert(st.alerts, last, rec)) ]

\* Mutant: an alert is derived only for a record classified Anomaly.
BatchStep_anomaly(st, log_entry, coin) ==
    LET last == st.last + 1
    IN  IF log_entry.kind # "dict"
        THEN [ st EXCEPT !.last = last, !.ok = FALSE ]
        ELSE LET rec == AssignId(log_entry, last)
                 st1 == [ st EXCEPT !.last = last,
                                    !.log = Append(st.log, rec),
                                    !.ids = Append(st.ids, last) ]
             IN  IF ~(coin /\ rec.classification = "Anomaly") THEN st1
                 ELSE IF AlertRaises(rec) THEN [ st1 EXCEPT !.ok = FALSE ]
                 ELSE [ st1 EXCEPT !.alerts = Append(st.alerts, NewAlert(st.alerts, last, rec)) ]

\* The body of the batch loop (api.py:151-167) for one entry, from the loop state
\* st = [log, alerts, last, ids, ok]; coin is the outcome of random.random() < 0.5.
BatchStep(st, log_entry, coin) ==
    LET last == st.last + 1
    IN  IF log_entry.kind # "dict"
        THEN [ st EXCEPT !.last = last, !.ok = FALSE ]
        ELSE LET rec == AssignId(log_entry, last)
                 st1 == [ st EXCEPT !.last = last,
                                    !.log = Append(st.log, rec),
                                    !.ids = Append(st.ids, last) ]
             IN  IF ~coin THEN st1
                 ELSE IF AlertRaises(rec) THEN [ st1 EXCEPT !.ok = FALSE ]
                 ELSE [ st1 EXCEPT !.alerts = Append(st.alerts, NewAlert(st.alerts, last, rec)) ]

\* The batch loop over logs[i..], stopping at the first entry that raises.
RECURSIVE BatchLoop(_, _, _, _)
BatchLoop(st, logs, coins, i) ==
    IF i > Len(logs) \/ ~st.ok THEN st
    ELSE BatchLoop(BatchStep(st, logs[i], coins[i]), logs, coins, i + 1)

\* Mutant: the slice keeps the oldest records (LIVE_PACKET_LOG[:MAX_LIVE_PACKETS]).
Truncate_oldest(log) == SubSeq(log, 1, Min(Len(log), MAX_LIVE_PACKETS))

\* LIVE_PACKET_LOG = LIVE_PACKET_LOG[-MAX_LIVE_PACKETS:]
Truncate(log) == LastN(log, MAX_LIVE_PACKETS)

\* ingest_packet, batch path: the request body is {'logs': logs}.
IngestBatch(logs, coins) ==
    LET st0 == [ log |-> LIVE_PACKET_LOG, alerts |-> ALERT_HISTORY,
                 last |-> LAST_PACKET_ID, ids |-> << >>, ok |-> TRUE ]
        st  == BatchLoop(st0, logs, coins, 1)
        given == [ i \in 1..Len(logs) |-> logs[i].id ]
    IN  /\ LAST_PACKET_ID' = st.last
        /\ ALERT_HISTORY' = st.alerts
        /\ arrived' = arrived \o SubSeq(st.log, Len(LIVE_PACKET_LOG) + 1, Len(st.log))
        /\ IF st.ok
           THEN /\ LIVE_PACKET_LOG' = Truncate(st.log)
                /\ trace' = [ Answer("ingest_batch", Len(logs), 201)
                              EXCEPT !.ids = st.ids, !.given = given, !.coins = coins,
                                     !.sent = logs, !.counter = LAST_PACKET_ID ]
                /\ nFailed' = nFailed
           ELSE /\ LIVE_PACKET_LOG' = st.log
                /\ trace' = [ Answer("ingest_batch", Len(logs), 400)
                              EXCEPT !.given = given, !.sent = logs,
                                     !.counter = LAST_PACKET_ID ]
                /\ nFailed' = nFailed + 1

\* The single path (api.py:173-191) as a function of the store
\* st = [log, alerts, last, ids, ok]: ok tells whether the request is answered
\* 201, ids gets the id it is answered with; coin is the outcome of
\* random.random() < 0.5.
SingleStep(st, packet_data, coin) ==
    LET last == st.last + 1
    IN  IF packet_data.kind # "dict"
        THEN [ st EXCEPT !.last = last, !.ok = FALSE ]
        ELSE LET rec == AssignId(packet_data, last)
                 st1 == [ st EXCEPT !.last = last,
                                    !.log = Truncate(Append(st.log, rec)),
                                    !.ok = TRUE ]
             IN  IF ~coin THEN [ st1 EXCEPT !.ids = Append(st.ids, last) ]
                 ELSE IF AlertRaises(rec) THEN [ st1 EXCEPT !.ok = FALSE ]
                 ELSE [ st1 EXCEPT !.alerts = Append(st.alerts, NewAlert(st.alerts, last, rec)),
                                   !.ids = Append(st.ids, last) ]

\* K successive single-record requests, whatever each is answered.
RECURSIVE SingleLoop(_, _, _, _)
SingleLoop(st, logs, coins, i) ==
    IF i > Len(logs) THEN st
    ELSE SingleLoop(SingleStep(st, logs[i], coins[i]), logs, coins, i + 1)

\* ingest_packet, single path: the request body is the record itself (a JSON
\* object without the key 'logs'), or a JSON list.
IngestSingle(packet_data, coin) ==
    LET st == SingleStep([ log |-> LIVE_PACKET_LOG, alerts |-> ALERT_HISTORY,
                           last |-> LAST_PACKET_ID, ids |-> << >>, ok |-> TRUE ],
                         packet_data, coin)
        given == << packet_data.id >>
    IN  /\ LAST_PACKET_ID' = st.last
        /\ LIVE_PACKET_LOG' = st.log
        /\ ALERT_HISTORY' = st.alerts
        /\ arrived' = IF packet_data.kind = "dict"
                      THEN Append(arrived, AssignId(packet_data, st.last))
                      ELSE arrived
        /\ IF st.ok
           THEN /\ trace' = [ Answer("ingest_single", 1, 201)
                              EXCEPT !.ids = st.ids, !.given = given,
                                     !.coins = << coin >> ]
                /\ nFailed' = nFailed
           ELSE /\ trace' = [ Answer("ingest_single", 1, 400) EXCEPT !.given = given ]
                /\ nFailed' = nFailed + 1

\* ingest_packet with a body that is no JSON, or a JSON number or null:
\* request.get_json() or the test 'logs' in data raises before anything is changed.
IngestUnreadable ==
    /\ UNCHANGED << apiVars, arrived >>
    /\ trace' = Answer("ingest_unreadable", 0, 400)
    /\ nFailed' = nFailed + 1

\* get_packet_details
GetPacketDetails(packet_id) ==
    LET packet == get_packet_by_id(packet_id)
    IN  /\ UNCHANGED << apiVars, arrived, nFailed >>
        /\ trace' = [ Answer("get_packet", packet_id,
                             IF packet # << >> THEN 200 ELSE 404)
                      EXCEPT !.details = packet ]

\* get_alerts_history (api.py:210-213)
GetAlertsHistory ==
    /\ UNCHANGED << apiVars, arrived, nFailed >>
    /\ trace' = [ Answer("get_alerts", 0, 200) EXCEPT !.alerts = get_alert_history ]

\* get_live_traffic (api.py:198-206); 'role' is not modelled.
GetLiveTraffic ==
    /\ UNCHANGED << apiVars, arrived, nFailed >>
    /\ trace' = [ Answer("get_live", 0, 200)
                  EXCEPT !.logs = get_live_logs, !.sensitivity = CONFIG ]

\* A dictionary of counts as the loop of api.py:230-239 fills it: one pair
\* (key, count) per distinct value, in the order of first occurrence.
RECURSIVE Counts(_, _)
Counts(values, acc) ==
    IF values = << >> THEN acc
    ELSE LET v   == Head(values)
             hit == { i \in 1..Len(acc) : acc[i][1] = v }
         IN  Counts(Tail(values),
                    IF hit = { } THEN Append(acc, << v, 1 >>)
                    ELSE [ acc EXCEPT ![CHOOSE i \in hit : TRUE][2] = @ + 1 ])

\* sorted(items, key=lambda item: item[1], reverse=True): by count, greatest
\* first, pairs of equal count in their order in items.
RECURSIVE InsertByCount(_, _)
InsertByCount(sorted, item) ==
    IF sorted = << >> THEN << item >>
    ELSE IF Head(sorted)[2] >= item[2]
         THEN << Head(sorted) >> \o InsertByCount(Tail(sorted), item)
         ELSE << item >> \o sorted

RECURSIVE SortedByCount(_)
SortedByCount(items) ==
    IF items = << >> THEN << >>
    ELSE InsertByCount(SortedByCount(SubSeq(items, 1, Len(items) - 1)),
                       items[Len(items)])

\* The body of get_analytics_trends (api.py:219-251) over the records `logs`.
\* The records of the model have no 'protocol' key, so each counts under
\* "Unknown"; a record without 'src_ip' counts under Absent, which stands for
\* the key "Unknown" of the report; the address "0.0.0.0" is host number 0.
get_analytics_trends(logs) ==
    IF logs = << >>
    THEN [ classification_stats |-> << << "Normal", 10 >>, << "Anomaly", 0 >> >>,
           protocol_stats |-> << << "TCP", 5 >>, << "UDP", 3 >>, << "ICMP", 2 >> >>,
           ip_stats |-> << << 0, 0 >> >> ]
    ELSE [ classification_stats |->
               SortedByCount(Counts([ i \in 1..Len(logs) |-> logs[i].classification ], << >>)),
           protocol_stats |->
               SortedByCount(Counts([ i \in 1..Len(logs) |-> "Unknown" ], << >>)),
           ip_stats |->
               LET all == SortedByCount(Counts([ i \in 1..Len(logs) |-> logs[i].src_ip ], << >>))
               IN  SubSeq(all, 1, Min(10, Len(all))) ]

\* get_analytics_trends
GetAnalyticsTrends ==
    LET stats == get_analytics_trends(get_live_logs)
    IN  /\ UNCHANGED << apiVars, arrived, nFailed >>
        /\ trace' = [ Answer("get_trends", 0, 200)
                      EXCEPT !.classification_stats = stats.classification_stats,
                             !.protocol_stats = stats.protocol_stats,
                             !.ip_stats = stats.ip_stats ]

\* Mutant: the action toggles the status instead of setting it.
RECURSIVE MarkProcessed_toggle(_, _, _)
MarkProcessed_toggle(alerts, alert_id, i) ==
    IF i > Len(alerts) THEN alerts
    ELSE IF alerts[i].alert_id = alert_id
         THEN [ alerts EXCEPT ![i].status =
                    IF alerts[i].status = "New" THEN "Processed" ELSE "New" ]
         ELSE MarkProcessed_toggle(alerts, alert_id, i + 1)

\* Mutant: an alert_id that matches nothing falls through to the last alert.
RECURSIVE MarkProcessed_fallthrough(_, _, _)
MarkProcessed_fallthrough(alerts, alert_id, i) ==
    IF i > Len(alerts)
    THEN IF alerts = << >> THEN alerts
         ELSE [ alerts EXCEPT ![Len(alerts)].status = "Processed" ]
    ELSE IF alerts[i].alert_id = alert_id
         THEN [ alerts EXCEPT ![i].status = "Processed" ]
         ELSE MarkProcessed_fallthrough(alerts, alert_id, i + 1)

\* Mutant: the alert acted on is removed from the list.
RECURSIVE MarkProcessed_remove(_, _, _)
MarkProcessed_remove(alerts, alert_id, i) ==
    IF i > Len(alerts) THEN alerts
    ELSE IF alerts[i].alert_id = alert_id
         THEN SubSeq(alerts, 1, i - 1) \o SubSeq(alerts, i + 1, Len(alerts))
         ELSE MarkProcessed_remove(alerts, alert_id, i + 1)

\* Mutant: the loop has no break and tests alert_id <= instead of ==.
RECURSIVE MarkProcessed_upto(_, _, _)
MarkProcessed_upto(alerts, alert_id, i) ==
    IF i > Len(alerts) THEN alerts
    ELSE MarkProcessed_upto(IF alerts[i].alert_id <= alert_id
                            THEN [ alerts EXCEPT ![i].status = "Processed" ]
                            ELSE alerts,
                            alert_id, i + 1)

\* The loop of handle_alert_action (api.py:288-291) from position i.
RECURSIVE MarkProcessed(_, _, _)
MarkProcessed(alerts, alert_id, i) ==
    IF i > Len(alerts) THEN alerts
    ELSE IF alerts[i].alert_id = alert_id
         THEN [ alerts EXCEPT ![i].status = "Processed" ]
         ELSE MarkProcessed(alerts, alert_id, i + 1)

\* handle_alert_action
HandleAlertAction(alert_id, action) ==
    LET hits == SelectSeq(ALERT_HISTORY, LAMBDA a : a.alert_id = alert_id)
    IN  /\ ALERT_HISTORY' = MarkProcessed(ALERT_HISTORY, alert_id, 1)
        /\ UNCHANGED << LIVE_PACKET_LOG, LAST_PACKET_ID, arrived, nFailed >>
        /\ trace' = [ Answer("alert_action", alert_id, 200)
                      EXCEPT !.was = IF hits = << >> THEN "none" ELSE Head(hits).status,
                             !.action = action ]

\* save_settings with the body {'sensitivity': sensitivity}, or a body without
\* that key (Absent): CONFIG.update(data), then CONFIG is written to the file.
SaveSettings(sensitivity) ==
    LET config == IF sensitivity = Absent THEN CONFIG ELSE sensitivity
    IN  /\ CONFIG' = config
        /\ settings_file' = [ state |-> "ok", sensitivity |-> config ]
        /\ UNCHANGED << apiVars, arrived, nFailed >>
        /\ trace' = Answer("save_settings", sensitivity, 200)

\* ingest_packet, batch path, statement by statement, as the threads of the
\* server run it: there is no lock in api.py, so the statements of two requests
\* interleave.  threads[t] is the request thread t is serving:
\*   pc          the statement it is at: "loop" (api.py:151-152), "assign" (153),
\*               "append" (154), "ids" (155), "alert" (158-167), "truncate"
\*               (169), or "idle" between requests
\*   logs, coins the entries of its body and the coin of each
\*   i, rec      the loop index and the entry being handled, id written
\*   ids         ingested_ids
Thread(pc, logs, coins) ==
    [ pc |-> pc, logs |-> logs, coins |-> coins, i |-> 1, rec |-> << >>,
      ids |-> << >> ]

IdleThread == Thread("idle", << >>, << >>)

\* The threads serving requests at the same time.
ServerThreads == { 1, 2 }

\* What a step leaves alone besides the variables of api.py.
ThreadFrame == << CONFIG, settings_file, model_file, snifferVars >>

\* api.py:146-150
IngestBegin(t, logs, coins) ==
    /\ threads[t].pc = "idle"
    /\ threads' = [ threads EXCEPT ![t] = Thread("loop", logs, coins) ]
    /\ UNCHANGED << apiVars, arrived, trace, nFailed, ThreadFrame >>

\* The except branch (api.py:194-195).
IngestRaise(t) ==
    /\ threads' = [ threads EXCEPT ![t] = IdleThread ]
    /\ nFailed' = nFailed + 1
    /\ trace' = [ Answer("ingest_batch", Len(threads[t].logs), 400)
                  EXCEPT !.sent = threads[t].logs ]

\* for log_entry in data['logs']: LAST_PACKET_ID += 1
IngestIncrement(t) ==
    /\ threads[t].pc = "loop"
    /\ IF threads[t].i > Len(threads[t].logs)
       THEN /\ threads' = [ threads EXCEPT ![t].pc = "truncate" ]
            /\ UNCHANGED LAST_PACKET_ID
       ELSE /\ LAST_PACKET_ID' = LAST_PACKET_ID + 1
            /\ threads' = [ threads EXCEPT ![t].pc = "assign" ]
    /\ UNCHANGED << LIVE_PACKET_LOG, ALERT_HISTORY, arrived, trace, nFailed, ThreadFrame >>

\* log_entry['id'] = LAST_PACKET_ID
IngestAssign(t) ==
    /\ threads[t].pc = "assign"
    /\ LET log_entry == threads[t].logs[threads[t].i]
       IN  IF log_entry.kind # "dict"
           THEN IngestRaise(t)
           ELSE /\ threads' = [ threads EXCEPT
                                  ![t].pc = "append",
                                  ![t].rec = << AssignId(log_entry, LAST_PACKET_ID) >> ]
                /\ UNCHANGED << trace, nFailed >>
    /\ UNCHANGED << apiVars, arrived, ThreadFrame >>

\* LIVE_PACKET_LOG.append(log_entry)
IngestAppend(t) ==
    /\ threads[t].pc = "append"
    /\ LIVE_PACKET_LOG' = Append(LIVE_PACKET_LOG, threads[t].rec[1])
    /\ arrived' = Append(arrived, threads[t].rec[1])
    /\ threads' = [ threads EXCEPT ![t].pc = "ids" ]
    /\ UNCHANGED << ALERT_HISTORY, LAST_PACKET_ID, trace, nFailed, ThreadFrame >>

\* ingested_ids.append(LAST_PACKET_ID)
IngestIds(t) ==
    /\ threads[t].pc = "ids"
    /\ threads' = [ threads EXCEPT ![t].pc = "alert",
                                   ![t].ids = Append(@, LAST_PACKET_ID) ]
    /\ UNCHANGED << apiVars, arrived, trace, nFailed, ThreadFrame >>

\* if random.random() < 0.5: ALERT_HISTORY.append({...})
IngestAlert(t) ==
    /\ threads[t].pc = "alert"
    /\ LET rec == threads[t].rec[1]
       IN  IF ~threads[t].coins[threads[t].i]
           THEN /\ threads' = [ threads EXCEPT ![t].pc = "loop", ![t].i = @ + 1 ]
                /\ UNCHANGED << ALERT_HISTORY, trace, nFailed >>
           ELSE IF AlertRaises(rec)
           THEN /\ IngestRaise(t)
                /\ UNCHANGED ALERT_HISTORY
           ELSE /\ ALERT_HISTORY' =
                      Append(ALERT_HISTORY, NewAlert(ALERT_HISTORY, LAST_PACKET_ID, rec))
                /\ threads' = [ threads EXCEPT ![t].pc = "loop", ![t].i = @ + 1 ]
                /\ UNCHANGED << trace, nFailed >>
    /\ UNCHANGED << LIVE_PACKET_LOG, LAST_PACKET_ID, arrived, ThreadFrame >>

\* LIVE_PACKET_LOG = LIVE_PACKET_LOG[-MAX_LIVE_PACKETS:] and the answer 201.
IngestTruncate(t) ==
    /\ threads[t].pc = "truncate"
    /\ LIVE_PACKET_LOG' = Truncate(LIVE_PACKET_LOG)
    /\ threads' = [ threads EXCEPT ![t] = IdleThread ]
    /\ trace' = [ Answer("ingest_batch", Len(threads[t].logs), 201)
                  EXCEPT !.ids = threads[t].ids, !.sent = threads[t].logs ]
    /\ UNCHANGED << ALERT_HISTORY, LAST_PACKET_ID, arrived, nFailed, ThreadFrame >>

-----------------------------------------------------------------------------
(* backend/extractor.py *)

\* A captured packet: whether it has an IP layer and, if so, the header fields;
\* whether it has a TCP or UDP layer; the set of TCP flags; the wire length.
Packet(ip, src, proto, ttl, tcp, udp, flags, len) ==
    [ ip |-> ip, src |-> src, proto |-> proto, ttl |-> ttl, tcp |-> tcp, udp |-> udp,
      flags |-> flags, len |-> len ]

Flag(packet, f) == IF f \in packet.flags THEN 1 ELSE 0

\* The order of the vector, as the docstring of extract_features names it and as
\* its body fills it (extractor.py:7-8, 16-41).
FeatureOrder == << "protocol", "length", "ttl", "flags_count" >>

\* Mutant: PSH is counted with SYN, ACK, FIN and RST.
extract_features_psh(packet) ==
    IF packet.ip
    THEN << packet.proto, packet.len, packet.ttl,
            IF packet.tcp
            THEN Flag(packet, "S") + Flag(packet, "A") + Flag(packet, "F")
                 + Flag(packet, "R") + Flag(packet, "P")
            ELSE 0 >>
    ELSE << >>

\* Mutant: the return statement is outside the test IP in packet.
extract_features_always(packet) ==
    << packet.proto, packet.len, packet.ttl,
       IF packet.tcp
       THEN Flag(packet, "S") + Flag(packet, "A") + Flag(packet, "F") + Flag(packet, "R")
       ELSE 0 >>

\* extract_features: [protocol, length, ttl, flags_count], or the empty sequence
\* for None.
extract_features(packet) ==
    IF packet.ip
    THEN << packet.proto, packet.len, packet.ttl,
            IF packet.tcp
            THEN Flag(packet, "S") + Flag(packet, "A") + Flag(packet, "F") + Flag(packet, "R")
            ELSE 0 >>
    ELSE << >>

\* packet_to_log_data; packet.time is the position of the packet in the capture.
packet_to_log_data(packet, time, classification, confidence) ==
    Entry("dict", Absent, time,
          IF packet.ip THEN packet.src ELSE Absent,
          IF classification = 1 THEN "Anomaly" ELSE "Normal",
          Format4f(confidence))

-----------------------------------------------------------------------------
(* backend/ml_engine.py *)

\* generate_model.py:10-14: the columns the classifier is trained on.
SNIFFER_FEATURES ==
    << "size", "ip_header_len", "ip_ttl", "sport", "dport", "tcp_syn_flag",
       "tcp_ack_flag", "tcp_window", "protocol_TCP", "protocol_UDP", "protocol_ICMP" >>

\* The artifact on disk: "missing"; "corrupt" (pickle.load raises); "bare_model"
\* (a pickled classifier); "dict_model" (a pickled dict with the classifier under
\* 'model'); "garbage" (a pickle of something that is no classifier).
Artifacts == { "missing", "corrupt", "bare_model", "dict_model", "garbage" }

\* Mutant: only a missing file is handled; whatever else is on disk counts as
\* a loaded model.
load_model_unchecked(artifact) ==
    IF artifact = "missing" THEN "None" ELSE "model"

\* MLEngine._load_model: the value of self.model.
load_model(artifact) ==
    CASE artifact = "missing"    -> "None"
      [] artifact = "corrupt"    -> "None"
      [] artifact = "bare_model" -> "model"
      [] artifact = "dict_model" -> "model"
      [] artifact = "garbage"    -> "garbage"

\* What the loaded classifier does with one input: it answers a class and the
\* probability of that class, or one of its calls raises.
ModelAnswer(raises, classification, confidence) ==
    [ raises |-> raises, classification |-> classification, confidence |-> confidence ]

\* Mutant: predict without its try block; an exception that leaves predict is
\* the empty sequence, no pair having been returned.
predict_uncaught(model, features, answer) ==
    IF model = "None" THEN << 0, 0 >>
    ELSE IF model = "garbage" \/ features = << >> \/ answer.raises THEN << >>
    ELSE << answer.classification, answer.confidence >>

\* MLEngine.predict on a feature vector, the classifier behaving as `answer`.
\* The empty sequence is the input None or []: np.array(features).reshape(1, -1)
\* then has no numeric column and the classifier's predict raises, as does any
\* call on an object that is no classifier.
predict(model, features, answer) ==
    IF model = "None" THEN << 0, 0 >>
    ELSE IF model = "garbage" \/ features = << >> \/ answer.raises THEN << 0, 0 >>
    ELSE << answer.classification, answer.confidence >>

\* A call of ml_engine.predict(features) on the engine the sniffer has built,
\* from process_packet or from anywhere else.
Predict(features, answer) ==
    /\ sniffer_pc = "running"
    /\ trace' = [ Answer("predict", 0, 0)
                  EXCEPT !.features = features, !.calls = 1, !.asked = << answer >>,
                         !.raw = predict(ml_model, features, answer) ]
    /\ UNCHANGED << apiVars, threads, CONFIG, settings_file, model_file, arrived,
                    nFailed >>

-----------------------------------------------------------------------------
(* backend/sniffer.py *)

\* A sensitivity in settings.json that is no number (a string, null).
BadValue == 0 - 2

\* sniffer.py:51.  No statement of sniffer.py reads it.
BATCH_SIZE == 10

\* load_settings (sniffer.py:23-40): the sensitivity of the settings read, Absent
\* when they have no such key.
load_settings(file) ==
    CASE file.state = "ok"      -> file.sensitivity
      [] file.state = "missing" -> DEFAULT_SENSITIVITY
      [] file.state = "corrupt" -> Absent

\* Import of sniffer.py: CONFIG = load_settings() and ml_engine = MLEngine().
SnifferStart ==
    /\ sniffer_pc = "down"
    /\ sniffer_pc' = "running"
    /\ SETTINGS' = load_settings(settings_file)
    /\ ml_model' = load_model(model_file)
    /\ trace' = Answer("sniffer_start", 0, 0)
    /\ UNCHANGED << apiVars, threads, CONFIG, settings_file, model_file, LIVE_PACKETS,
                    sender_pc, batch_to_send, lockVars, appended, attempts, timer_fired,
                    captured, judged, arrived, nFailed >>

\* Mutant: the threshold test is <= instead of <.
ApplySensitivity_le(classification, confidence, sensitivity) ==
    IF classification = 1 /\ confidence <= sensitivity
    THEN << 0, Scale - confidence >>
    ELSE << classification, confidence >>

\* Mutant: the label is lowered and the confidence is left as it was.
ApplySensitivity_noflip(classification, confidence, sensitivity) ==
    IF classification = 1 /\ confidence < sensitivity
    THEN << 0, confidence >>
    ELSE << classification, confidence >>

\* sniffer.py:78-80
ApplySensitivity(classification, confidence, sensitivity) ==
    IF classification = 1 /\ confidence < sensitivity
    THEN << 0, Scale - confidence >>
    ELSE << classification, confidence >>

\* Mutant: the record is built from the classifier's answer, not from the
\* thresholded result.
Processed_raw(packet, answer, time) ==
    LET features    == extract_features(packet)
        raw         == predict(ml_model, features, answer)
        sensitivity == IF SETTINGS = Absent THEN DEFAULT_SENSITIVITY ELSE SETTINGS
        final       == ApplySensitivity(raw[1], raw[2], sensitivity)
    IN  [ features |-> features, raw |-> raw, sensitivity |-> sensitivity,
          raises |-> (features # << >> /\ raw[1] = 1 /\ sensitivity = BadValue),
          final |-> final,
          log_entry |-> packet_to_log_data(packet, time, raw[1], raw[2]) ]

\* process_packet up to the locked section (sniffer.py:64-89) for the packet
\* captured at `time`, the classifier behaving as `answer` if it is called:
\*   features, raw     the feature vector and the classifier's answer
\*   sensitivity       CONFIG.get('sensitivity', 0.5)
\*   raises            confidence < sensitivity raises TypeError: the test is
\*                     evaluated for classification 1 only
\*   final, log_entry  the thresholded result and the record built from it
Processed(packet, answer, time) ==
    LET features    == extract_features(packet)
        raw         == predict(ml_model, features, answer)
        sensitivity == IF SETTINGS = Absent THEN DEFAULT_SENSITIVITY ELSE SETTINGS
        final       == ApplySensitivity(raw[1], raw[2], sensitivity)
    IN  [ features |-> features, raw |-> raw, sensitivity |-> sensitivity,
          raises |-> (features # << >> /\ raw[1] = 1 /\ sensitivity = BadValue),
          final |-> final,
          log_entry |-> packet_to_log_data(packet, time, final[1], final[2]) ]

\* What process_packet leaves in trace for the outcome r.
ProcessTrace(op, time, r) ==
    [ Answer(op, time, 0)
      EXCEPT !.features = r.features, !.calls = 1, !.raw = r.raw,
             !.sensitivity = r.sensitivity,
             !.final = IF r.raises THEN << >> ELSE r.final,
             !.details = IF r.raises THEN << >> ELSE << r.log_entry >> ]

\* process_packet as one step, the classifier behaving as `answer` if it is
\* called.  An exception leaves process_packet and sniff(), is printed by the
\* handler of sniffer.py:159 and the program ends.
ProcessPacket(packet, answer) ==
    LET time == Len(captured) + 1
        r    == Processed(packet, answer, time)
    IN  /\ sniffer_pc = "running"
        /\ capture_pc = "idle"
        /\ lock = "free"
        /\ captured' = Append(captured, packet)
        /\ judged' = Append(judged, IF r.features = << >> THEN << >>
                                    ELSE << r.raw, r.sensitivity >>)
        /\ IF r.features = << >>
           THEN /\ UNCHANGED << LIVE_PACKETS, appended, sniffer_pc >>
                /\ trace' = Answer("process", time, 0)
           ELSE IF r.raises
           THEN /\ UNCHANGED << LIVE_PACKETS, appended >>
                /\ sniffer_pc' = "stopped"
                /\ trace' = ProcessTrace("process_error", time, r)
           ELSE /\ LIVE_PACKETS' = Append(LIVE_PACKETS, r.log_entry)
                /\ appended' = Append(appended, r.log_entry)
                /\ UNCHANGED sniffer_pc
                /\ trace' = ProcessTrace("process", time, r)
        /\ UNCHANGED << apiVars, threads, CONFIG, settings_file, model_file, SETTINGS,
                        ml_model, sender_pc, batch_to_send, lockVars, attempts,
                        timer_fired, arrived, nFailed >>

\* process_packet step by step.  Lines 64-89: everything before `with lock`.
CaptureClassify(packet, answer) ==
    LET time == Len(captured) + 1
        r    == Processed(packet, answer, time)
    IN  /\ sniffer_pc = "running"
        /\ capture_pc = "idle"
        /\ captured' = Append(captured, packet)
        /\ judged' = Append(judged, IF r.features = << >> THEN << >>
                                    ELSE << r.raw, r.sensitivity >>)
        /\ IF r.features = << >>
           THEN /\ UNCHANGED << capture_pc, pending, sniffer_pc >>
                /\ trace' = Answer("classify", time, 0)
           ELSE IF r.raises
           THEN /\ UNCHANGED << capture_pc, pending >>
                /\ sniffer_pc' = "stopped"
                /\ trace' = ProcessTrace("process_error", time, r)
           ELSE /\ capture_pc' = "lock"
                /\ pending' = << r.log_entry >>
                /\ UNCHANGED sniffer_pc
                /\ trace' = ProcessTrace("classify", time, r)
        /\ UNCHANGED << apiVars, threads, CONFIG, settings_file, model_file, SETTINGS,
                        ml_model, LIVE_PACKETS, sender_pc, batch_to_send, lock, appended,
                        attempts, timer_fired, arrived, nFailed >>

\* Mutant: the capture thread enters its section whoever holds the lock.
CaptureAcquire_nolock ==
    /\ sniffer_pc = "running"
    /\ capture_pc = "lock"
    /\ lock' = "capture"
    /\ capture_pc' = "append"
    /\ UNCHANGED << apiVars, threads, CONFIG, settings_file, model_file, sniffer_pc,
                    SETTINGS, ml_model, LIVE_PACKETS, sender_pc, batch_to_send, pending,
                    appended, attempts, timer_fired, captured, judged, arrived, trace, nFailed >>

\* `with lock:` of process_packet (sniffer.py:91): the capture thread waits
\* until the lock is free and takes it.
CaptureAcquire ==
    /\ sniffer_pc = "running"
    /\ capture_pc = "lock"
    /\ lock = "free"
    /\ lock' = "capture"
    /\ capture_pc' = "append"
    /\ UNCHANGED << apiVars, threads, CONFIG, settings_file, model_file, sniffer_pc,
                    SETTINGS, ml_model, LIVE_PACKETS, sender_pc, batch_to_send, pending,
                    appended, attempts, timer_fired, captured, judged, arrived, trace, nFailed >>

\* LIVE_PACKETS.append(log_entry) and the end of the with block
\* (sniffer.py:92), which releases the lock.
CaptureAppend ==
    /\ sniffer_pc = "running"
    /\ capture_pc = "append"
    /\ LIVE_PACKETS' = Append(LIVE_PACKETS, pending[1])
    /\ appended' = Append(appended, pending[1])
    /\ pending' = << >>
    /\ lock' = "free"
    /\ capture_pc' = "idle"
    /\ trace' = [ Answer("append", pending[1].timestamp, 0) EXCEPT !.details = pending ]
    /\ UNCHANGED << apiVars, threads, CONFIG, settings_file, model_file, sniffer_pc,
                    SETTINGS, ml_model, sender_pc, batch_to_send, attempts, timer_fired,
                    captured, judged, arrived, nFailed >>

\* KeyboardInterrupt while sniff() runs (sniffer.py:157-164): the handler prints
\* a line, the main thread ends and the daemon sender thread ends with it.  A
\* with block the signal interrupts releases the lock.
Interrupt ==
    /\ sniffer_pc = "running"
    /\ sniffer_pc' = "stopped"
    /\ capture_pc' = "idle"
    /\ pending' = << >>
    /\ lock' = IF lock = "capture" THEN "free" ELSE lock
    /\ trace' = Answer("interrupt", Len(LIVE_PACKETS), 0)
    /\ UNCHANGED << apiVars, threads, CONFIG, settings_file, model_file, SETTINGS,
                    ml_model, LIVE_PACKETS, sender_pc, batch_to_send, appended, attempts,
                    timer_fired, captured, judged, arrived, nFailed >>

\* Mutant: the buffer is copied and not cleared.
SendTake_noclear ==
    /\ sniffer_pc = "running"
    /\ sender_pc = "idle"
    /\ lock = "free"
    /\ timer_fired' = TRUE
    /\ IF LIVE_PACKETS = << >>
       THEN /\ UNCHANGED << sender_pc, batch_to_send >>
            /\ trace' = Answer("send_empty", 0, 0)
       ELSE /\ batch_to_send' = LIVE_PACKETS
            /\ sender_pc' = "post"
            /\ trace' = Answer("send_take", Len(LIVE_PACKETS), 0)
    /\ UNCHANGED << apiVars, threads, CONFIG, settings_file, model_file, sniffer_pc,
                    SETTINGS, ml_model, LIVE_PACKETS, lockVars, appended, attempts,
                    captured, judged, arrived, nFailed >>

\* sniff() raises between two packets (no permission, the interface is gone):
\* the handler of sniffer.py:159-162 prints the error and a hint, and the
\* program ends as it does on an interrupt.
SniffFails ==
    /\ sniffer_pc = "running"
    /\ capture_pc = "idle"
    /\ sniffer_pc' = "stopped"
    /\ trace' = [ Answer("sniff_error", Len(LIVE_PACKETS), 0) EXCEPT !.was = "printed" ]
    /\ UNCHANGED << apiVars, threads, CONFIG, settings_file, model_file, SETTINGS,
                    ml_model, LIVE_PACKETS, sender_pc, batch_to_send, lockVars, appended,
                    attempts, timer_fired, captured, judged, arrived, nFailed >>

\* Mutant: the batch is taken newest record first (LIVE_PACKETS[::-1]).
SendTake_reversed ==
    /\ sniffer_pc = "running"
    /\ sender_pc = "idle"
    /\ lock = "free"
    /\ timer_fired' = TRUE
    /\ IF LIVE_PACKETS = << >>
       THEN /\ UNCHANGED << LIVE_PACKETS, sender_pc, batch_to_send >>
            /\ trace' = Answer("send_empty", 0, 0)
       ELSE /\ batch_to_send' = [ i \in 1..Len(LIVE_PACKETS) |->
                                    LIVE_PACKETS[Len(LIVE_PACKETS) + 1 - i] ]
            /\ LIVE_PACKETS' = << >>
            /\ sender_pc' = "post"
            /\ trace' = Answer("send_take", Len(LIVE_PACKETS), 0)
    /\ UNCHANGED << apiVars, threads, CONFIG, settings_file, model_file, sniffer_pc,
                    SETTINGS, ml_model, lockVars, appended, attempts, captured, judged, arrived,
                    nFailed >>

\* Mutant: the test for an empty buffer is missing; an empty batch is taken and
\* posted.
SendTake_always ==
    /\ sniffer_pc = "running"
    /\ sender_pc = "idle"
    /\ lock = "free"
    /\ timer_fired' = TRUE
    /\ batch_to_send' = LIVE_PACKETS
    /\ LIVE_PACKETS' = << >>
    /\ sender_pc' = "post"
    /\ trace' = Answer("send_take", Len(LIVE_PACKETS), 0)
    /\ UNCHANGED << apiVars, threads, CONFIG, settings_file, model_file, sniffer_pc,
                    SETTINGS, ml_model, lockVars, appended, attempts, captured, judged, arrived,
                    nFailed >>

\* send_traffic_batch up to the end of the locked section (sniffer.py:105-111)
\* as one step: an empty buffer returns, otherwise the buffer is copied and
\* cleared.  The only caller is the loop of api_sender_thread.
SendTake ==
    /\ sniffer_pc = "running"
    /\ sender_pc = "idle"
    /\ lock = "free"
    /\ timer_fired' = TRUE
    /\ IF LIVE_PACKETS = << >>
       THEN /\ UNCHANGED << LIVE_PACKETS, sender_pc, batch_to_send >>
            /\ trace' = Answer("send_empty", 0, 0)
       ELSE /\ batch_to_send' = LIVE_PACKETS
            /\ LIVE_PACKETS' = << >>
            /\ sender_pc' = "post"
            /\ trace' = Answer("send_take", Len(LIVE_PACKETS), 0)
    /\ UNCHANGED << apiVars, threads, CONFIG, settings_file, model_file, sniffer_pc,
                    SETTINGS, ml_model, lockVars, appended, attempts, captured, judged, arrived,
                    nFailed >>

\* send_traffic_batch step by step.  `with lock:` (sniffer.py:105), called from
\* the loop of api_sender_thread.
SenderAcquire ==
    /\ sniffer_pc = "running"
    /\ sender_pc = "idle"
    /\ lock = "free"
    /\ lock' = "sender"
    /\ sender_pc' = "locked"
    /\ timer_fired' = TRUE
    /\ UNCHANGED << apiVars, threads, CONFIG, settings_file, model_file, sniffer_pc,
                    SETTINGS, ml_model, LIVE_PACKETS, batch_to_send, capture_pc, pending,
                    appended, attempts, captured, judged, arrived, trace, nFailed >>

\* sniffer.py:106-110: an empty buffer returns, which releases the lock;
\* otherwise batch_to_send = LIVE_PACKETS[:].
SenderCopy ==
    /\ sniffer_pc = "running"
    /\ sender_pc = "locked"
    /\ IF LIVE_PACKETS = << >>
       THEN /\ lock' = "free"
            /\ sender_pc' = "idle"
            /\ UNCHANGED batch_to_send
            /\ trace' = Answer("send_empty", 0, 0)
       ELSE /\ batch_to_send' = LIVE_PACKETS
            /\ sender_pc' = "copied"
            /\ UNCHANGED << lock, trace >>
    /\ UNCHANGED << apiVars, threads, CONFIG, settings_file, model_file, sniffer_pc,
                    SETTINGS, ml_model, LIVE_PACKETS, capture_pc, pending, appended,
                    attempts, timer_fired, captured, judged, arrived, nFailed >>

\* Mutant: requests.post is inside the with block; the lock is still held when
\* the delivery starts.
SenderClear_hold ==
    /\ sniffer_pc = "running"
    /\ sender_pc = "copied"
    /\ LIVE_PACKETS' = << >>
    /\ sender_pc' = "post"
    /\ trace' = Answer("send_take", Len(batch_to_send), 0)
    /\ UNCHANGED << apiVars, threads, CONFIG, settings_file, model_file, sniffer_pc,
                    SETTINGS, ml_model, batch_to_send, lockVars, appended,
                    attempts, timer_fired, captured, judged, arrived, nFailed >>

\* LIVE_PACKETS.clear() and the end of the with block (sniffer.py:111).
SenderClear ==
    /\ sniffer_pc = "running"
    /\ sender_pc = "copied"
    /\ LIVE_PACKETS' = << >>
    /\ lock' = "free"
    /\ sender_pc' = "post"
    /\ trace' = Answer("send_take", Len(batch_to_send), 0)
    /\ UNCHANGED << apiVars, threads, CONFIG, settings_file, model_file, sniffer_pc,
                    SETTINGS, ml_model, batch_to_send, capture_pc, pending, appended,
                    attempts, timer_fired, captured, judged, arrived, nFailed >>

\* One delivery attempt: the batch given to requests.post and what became of it.
Attempt(batch, outcome) == [ batch |-> batch, outcome |-> outcome ]

\* send_traffic_batch from requests.post on (sniffer.py:113-132), the request
\* reaching the API, which runs ingest_packet on {'logs': batch_to_send}.
\* Whatever the answer (201, 400, none within the timeout) the batch is dropped.
SendDelivered(coins) ==
    /\ sender_pc = "post"
    /\ IngestBatch(batch_to_send, coins)
    /\ sender_pc' = "idle"
    /\ batch_to_send' = << >>
    /\ attempts' = Append(attempts, Attempt(batch_to_send, "sent"))
    /\ UNCHANGED << threads, CONFIG, settings_file, model_file, sniffer_pc, SETTINGS,
                    ml_model, LIVE_PACKETS, lockVars, appended, timer_fired, captured, judged >>

\* Mutant: a batch that could not be delivered is put back in front of the buffer.
SendFailed_requeue ==
    /\ sender_pc = "post"
    /\ sender_pc' = "idle"
    /\ batch_to_send' = << >>
    /\ LIVE_PACKETS' = batch_to_send \o LIVE_PACKETS
    /\ attempts' = Append(attempts, Attempt(batch_to_send, "failed"))
    /\ trace' = Answer("send_failed", Len(batch_to_send), 0)
    /\ UNCHANGED << apiVars, threads, CONFIG, settings_file, model_file, sniffer_pc,
                    SETTINGS, ml_model, lockVars, appended, timer_fired, captured, judged,
                    arrived, nFailed >>

\* Mutant: the exception of a failed request is not caught and ends the sender
\* thread.
SendFailed_fatal ==
    /\ sender_pc = "post"
    /\ sender_pc' = "dead"
    /\ batch_to_send' = << >>
    /\ attempts' = Append(attempts, Attempt(batch_to_send, "failed"))
    /\ trace' = Answer("send_failed", Len(batch_to_send), 0)
    /\ UNCHANGED << apiVars, threads, CONFIG, settings_file, model_file, sniffer_pc,
                    SETTINGS, ml_model, LIVE_PACKETS, lockVars, appended, timer_fired,
                    captured, judged, arrived, nFailed >>

\* The same, the request failing before it reaches the API (refused, timed out):
\* the RequestException is printed and the batch is gone.
SendFailed ==
    /\ sender_pc = "post"
    /\ sender_pc' = "idle"
    /\ batch_to_send' = << >>
    /\ attempts' = Append(attempts, Attempt(batch_to_send, "failed"))
    /\ trace' = Answer("send_failed", Len(batch_to_send), 0)
    /\ UNCHANGED << apiVars, threads, CONFIG, settings_file, model_file, sniffer_pc,
                    SETTINGS, ml_model, LIVE_PACKETS, lockVars, appended, timer_fired,
                    captured, judged, arrived, nFailed >>

-----------------------------------------------------------------------------
(* Disk and start-up *)

\* load_config (api.py:13-30): {**default_config, **config}, or the defaults when
\* the file cannot be read.
load_config(file) ==
    IF file.state = "ok" /\ file.sensitivity # Absent
    THEN file.sensitivity
    ELSE DEFAULT_SENSITIVITY

\* The state of both processes before the sniffer is started and before the API
\* has served a request.
InitWith(file, artifact) ==
    /\ LIVE_PACKET_LOG = << >>
    /\ ALERT_HISTORY = << >>
    /\ LAST_PACKET_ID = 0
    /\ settings_file = file
    /\ model_file = artifact
    /\ CONFIG = load_config(file)
    /\ threads = [ t \in ServerThreads |-> IdleThread ]
    /\ sniffer_pc = "down"
    /\ SETTINGS = Absent
    /\ ml_model = "None"
    /\ LIVE_PACKETS = << >>
    /\ sender_pc = "idle"
    /\ batch_to_send = << >>
    /\ lock = "free"
    /\ capture_pc = "idle"
    /\ pending = << >>
    /\ appended = << >>
    /\ attempts = << >>
    /\ timer_fired = FALSE
    /\ captured = << >>
    /\ judged = << >>
    /\ arrived = << >>
    /\ trace = Answer("start", 0, 0)
    /\ nFailed = 0

DefaultFile == [ state |-> "ok", sensitivity |-> DEFAULT_SENSITIVITY ]

-----------------------------------------------------------------------------
(* The store under sequential HTTP requests: SpecStore                     *)
(*                                                                         *)
(* The requests fill the window past MAX_LIVE_PACKETS.  To keep the run    *)
(* finite and small, a request item may be irregular (an Anomaly record, a *)
(* producer-supplied id, a record without 'timestamp', a value that is no  *)
(* JSON object, a coin that creates an alert) only when the id it is about *)
(* to get lies within Warm of the empty store or of the full window, and   *)
(* while fewer than MaxOdd irregular things are visible in the state.      *)

\* Ids up to MAX_LIVE_PACKETS + Extra are assigned.
Extra == 10
\* Width of the two zones in which irregular request items may occur.
Warm == 1
\* Irregular things allowed in the state at one time.
MaxOdd == 1
\* Longest batch.
MaxBatch == 2

MaxRecords == MAX_LIVE_PACKETS + Extra

Plain == Entry("dict", Absent, 1, 1, "Normal", 9000)

\* A request item: a JSON value and the coin random.random() < 0.5 drawn for it.
Item(e, coin) == [ e |-> e, coin |-> coin ]

OddItems ==
    { Item(Entry("dict", 1, 1, 1, "Normal", 9000), FALSE),
      Item(Entry("dict", Absent, 1, 2, "Anomaly", 9000), FALSE),
      Item(Entry("dict", Absent, Absent, 1, "Normal", 9000), FALSE),
      Item(Entry("dict", Absent, Absent, 1, "Normal", 9000), TRUE),
      Item(Plain, TRUE),
      Item(NonDict, FALSE) }

Hot(id) ==
    \/ id <= Warm
    \/ MAX_LIVE_PACKETS - Warm < id /\ id <= MAX_LIVE_PACKETS + Warm + 1

\* How many irregular things the state shows.
OddInState ==
    Len(SelectSeq(LIVE_PACKET_LOG, LAMBDA r : [ r EXCEPT !.id = Absent ] # Plain))
      + Len(ALERT_HISTORY) + nFailed

\* What an item adds to that number; a producer-supplied id on an otherwise plain
\* record leaves nothing in the state and is not counted.
OddOf(it) == IF it.coin \/ [ it.e EXCEPT !.id = Absent ] # Plain THEN 1 ELSE 0

\* The requests of n items whose first item is about to get the id `id`, with at
\* most `budget` irregular items.
RECURSIVE ItemSeqs(_, _, _)
ItemSeqs(id, n, budget) ==
    IF n = 0 THEN { << >> }
    ELSE LET items == { Item(Plain, FALSE) } \cup
                      (IF Hot(id) THEN { it \in OddItems : OddOf(it) <= budget } ELSE { })
         IN  UNION { { << it >> \o rest : rest \in ItemSeqs(id + 1, n - 1, budget - OddOf(it)) } :
                     it \in items }

StoreRequests(n) == ItemSeqs(LAST_PACKET_ID + 1, n, MaxOdd - OddInState)

Entries(items) == [ i \in 1..Len(items) |-> items[i].e ]
Coins(items) == [ i \in 1..Len(items) |-> items[i].coin ]

\* The ids a reader asks for: around both ends of the window.
LookupIds ==
    { id \in { 0, 1, LAST_PACKET_ID - MAX_LIVE_PACKETS, LAST_PACKET_ID - MAX_LIVE_PACKETS + 1,
               LAST_PACKET_ID, LAST_PACKET_ID + 1 } : id >= 0 }

\* A request that leaves the window as it is (an empty batch, a lookup, an alert
\* action, an unreadable body) is sent at the two ends only.
AtAnEnd == Hot(LAST_PACKET_ID + 1)

StoreBatch ==
    /\ \E n \in 0..MaxBatch :
         /\ LAST_PACKET_ID + n <= MaxRecords
         /\ n = 0 => AtAnEnd
         /\ \E items \in StoreRequests(n) : IngestBatch(Entries(items), Coins(items))
    /\ UNCHANGED << CONFIG, settings_file, model_file, snifferVars, threads >>

StoreSingle ==
    /\ LAST_PACKET_ID + 1 <= MaxRecords
    /\ \E items \in StoreRequests(1) : IngestSingle(items[1].e, items[1].coin)
    /\ UNCHANGED << CONFIG, settings_file, model_file, snifferVars, threads >>

StoreUnreadable ==
    /\ AtAnEnd
    /\ OddInState < MaxOdd
    /\ IngestUnreadable
    /\ UNCHANGED << CONFIG, settings_file, model_file, snifferVars, threads >>

StoreLookup ==
    /\ AtAnEnd
    /\ \E id \in LookupIds : GetPacketDetails(id)
    /\ UNCHANGED << CONFIG, settings_file, model_file, snifferVars, threads >>

StoreAlertAction ==
    /\ AtAnEnd
    /\ \E alert_id \in 1..(Len(ALERT_HISTORY) + 1) :
         HandleAlertAction(alert_id, "block_ip")
    /\ UNCHANGED << CONFIG, settings_file, model_file, snifferVars, threads >>

InitStore == InitWith(DefaultFile, "missing")

NextStore ==
    \/ StoreBatch
    \/ StoreSingle
    \/ StoreUnreadable
    \/ StoreLookup
    \/ StoreAlertAction

SpecStore == InitStore /\ [][NextStore]_vars

-----------------------------------------------------------------------------
(* The store and the alerts under any short sequence of requests: SpecAlerts *)

\* Records sent in one run of SpecAlerts.
MaxIngest == 3

FreeItems ==
    { Item(e, coin) :
        e \in { Plain,
                Entry("dict", Absent, 1, 2, "Anomaly", 9000),
                Entry("dict", Absent, Absent, 1, "Normal", 9000),
                NonDict },
        coin \in BOOLEAN }

RECURSIVE FreeRequests(_)
FreeRequests(n) ==
    IF n = 0 THEN { << >> }
    ELSE { << it >> \o rest : it \in FreeItems, rest \in FreeRequests(n - 1) }

AlertsBatch ==
    /\ \E n \in 0..MaxBatch :
         /\ LAST_PACKET_ID + n <= MaxIngest
         /\ \E items \in FreeRequests(n) : IngestBatch(Entries(items), Coins(items))
    /\ UNCHANGED << CONFIG, settings_file, model_file, snifferVars, threads >>

AlertsSingle ==
    /\ LAST_PACKET_ID + 1 <= MaxIngest
    /\ \E it \in FreeItems : IngestSingle(it.e, it.coin)
    /\ UNCHANGED << CONFIG, settings_file, model_file, snifferVars, threads >>

\* The 'action' of the request: the two the frontend sends (ui_main.py:733,
\* 752) and a name the API has never heard of.
ActionNames == { "false_positive", "block_ip", "reboot" }

\* The alert_id of the request: any number, or Absent for a body without the key.
AlertsAction ==
    /\ \E alert_id \in { Absent } \cup 0..(Len(ALERT_HISTORY) + 1) :
         \E action \in ActionNames : HandleAlertAction(alert_id, action)
    /\ UNCHANGED << CONFIG, settings_file, model_file, snifferVars, threads >>

AlertsHistory ==
    /\ GetAlertsHistory
    /\ UNCHANGED << CONFIG, settings_file, model_file, snifferVars, threads >>

NextAlerts ==
    \/ AlertsBatch
    \/ AlertsSingle
    \/ AlertsAction
    \/ AlertsHistory

SpecAlerts == InitStore /\ [][NextAlerts]_vars

-----------------------------------------------------------------------------
(* Claims about the Ingestion Store *)

IsIngest == trace.op \in { "ingest_batch", "ingest_single" }

\* C1: every stored record carries an id assigned by the store's counter: the ids
\* of the records ever stored are strictly increasing in arrival order and never
\* exceed the counter (so none is assigned twice or reused after eviction), the
\* window is the latest part of that history, and the ids of a successful request
\* are the next counter values whatever id the producer supplied.
C1_IdsFromCounter ==
    /\ \A i \in 1..Len(arrived) :
         /\ 1 <= arrived[i].id /\ arrived[i].id <= LAST_PACKET_ID
         /\ i > 1 => arrived[i - 1].id < arrived[i].id
    /\ Len(LIVE_PACKET_LOG) <= Len(arrived)
    /\ LIVE_PACKET_LOG =
         SubSeq(arrived, Len(arrived) - Len(LIVE_PACKET_LOG) + 1, Len(arrived))
    /\ (IsIngest /\ trace.status = 201) =>
         LET n == Len(trace.ids)
         IN  /\ n = Len(trace.given)
             /\ n <= Len(arrived)
             /\ \A i \in 1..n :
                  /\ trace.ids[i] = LAST_PACKET_ID - n + i
                  /\ arrived[Len(arrived) - n + i].id = trace.ids[i]

\* A record sent with an id of the producer's was stored under another id, after
\* records had been evicted.
C1_Witness ==
    /\ IsIngest /\ trace.status = 201
    /\ \E i \in 1..Len(trace.given) :
         trace.given[i] # Absent /\ trace.given[i] # trace.ids[i]
    /\ Len(arrived) > Len(LIVE_PACKET_LOG)

\* C2: once a request has returned, the retained window holds at most
\* MAX_LIVE_PACKETS records.
C2_RetentionBound == Len(LIVE_PACKET_LOG) <= MAX_LIVE_PACKETS

\* C3: after K records have been ingested into an empty store by requests that all
\* succeeded, get_recent returns the min(K, MAX_LIVE_PACKETS) most recent of them in
\* arrival order, with the contiguous ids max(1, K - MAX_LIVE_PACKETS + 1)..K.
C3_RecentWindow ==
    nFailed = 0 =>
        LET K     == Len(arrived)
            first == Max(1, K - MAX_LIVE_PACKETS + 1)
        IN  /\ K = LAST_PACKET_ID
            /\ Len(get_live_logs) = Min(K, MAX_LIVE_PACKETS)
            /\ \A i \in 1..Len(get_live_logs) :
                 /\ get_live_logs[i] = arrived[first + i - 1]
                 /\ get_live_logs[i].id = first + i - 1

\* 60 records were ingested, the first of them an Anomaly: the window holds 11..60.
C3_Witness ==
    /\ nFailed = 0
    /\ Len(arrived) = 60
    /\ arrived[1].classification = "Anomaly"
    /\ get_live_logs[1].id = 11
    /\ get_live_logs[Len(get_live_logs)].id = 60

InWindow(id) == \E i \in 1..Len(LIVE_PACKET_LOG) : LIVE_PACKET_LOG[i].id = id

\* C4: get_by_id answers with a record exactly when a record with that id is in
\* the retained window, and then with that record; otherwise it answers 404 with
\* details null.
C4_GetById ==
    trace.op = "get_packet" =>
        IF InWindow(trace.arg)
        THEN /\ trace.status = 200
             /\ Len(trace.details) = 1
             /\ trace.details[1].id = trace.arg
             /\ \E i \in 1..Len(LIVE_PACKET_LOG) : LIVE_PACKET_LOG[i] = trace.details[1]
        ELSE /\ trace.status = 404
             /\ trace.details = << >>

\* The id of an evicted record was looked up and answered 404.
C4_Witness ==
    /\ trace.op = "get_packet"
    /\ trace.status = 404
    /\ \E j \in 1..Len(arrived) : arrived[j].id = trace.arg

-----------------------------------------------------------------------------
(* Claims about the alerts *)

\* C5: an alert is created with status New; an alert action on its alert_id
\* leaves it Processed and answers 200; a Processed alert stays Processed in
\* every later step, and an action on an alert that is already Processed changes
\* nothing.
C5_AlertLifecycle ==
    [][ /\ Len(ALERT_HISTORY') >= Len(ALERT_HISTORY)
        /\ \A i \in 1..Len(ALERT_HISTORY') :
             IF i > Len(ALERT_HISTORY)
             THEN ALERT_HISTORY'[i].status = "New"
             ELSE ALERT_HISTORY[i].status = "Processed"
                    => ALERT_HISTORY'[i].status = "Processed"
        /\ trace'.op = "alert_action" =>
             /\ trace'.status = 200
             /\ \A i \in 1..Len(ALERT_HISTORY) :
                  ALERT_HISTORY[i].alert_id = trace'.arg =>
                    /\ ALERT_HISTORY'[i].status = "Processed"
                    /\ ALERT_HISTORY[i].status = "Processed"
                         => ALERT_HISTORY' = ALERT_HISTORY
      ]_vars

\* A second action on an alert that was already Processed has been answered,
\* while a younger alert is New.
C5_Witness ==
    /\ trace.op = "alert_action"
    /\ trace.was = "Processed"
    /\ trace.status = 200
    /\ \E i, j \in 1..Len(ALERT_HISTORY) :
         /\ i < j
         /\ ALERT_HISTORY[i].alert_id = trace.arg
         /\ ALERT_HISTORY[i].status = "Processed"
         /\ ALERT_HISTORY[j].status = "New"

\* C6: an alert action whose alert_id names no alert answers 200 and leaves the
\* alert list as it was.
C6_UnknownAlertNoOp ==
    [][ ( /\ trace'.op = "alert_action"
          /\ \A i \in 1..Len(ALERT_HISTORY) : ALERT_HISTORY[i].alert_id # trace'.arg )
        => /\ trace'.status = 200
           /\ ALERT_HISTORY' = ALERT_HISTORY
      ]_vars

\* An action on an alert_id that names no alert was answered while a New alert
\* was in the list.
C6_Witness ==
    /\ trace.op = "alert_action"
    /\ trace.was = "none"
    /\ trace.status = 200
    /\ \E i \in 1..Len(ALERT_HISTORY) : ALERT_HISTORY[i].status = "New"

\* C20: a successful batch ingest of K records that started with the counter at c
\* returns the K ids c+1..c+K in the order of the records of the batch, leaves
\* the counter at c+K, and the i-th id returned is the id written onto the
\* i-th record of the batch, whose other fields are stored as sent.
C20_BatchIds ==
    (trace.op = "ingest_batch" /\ trace.status = 201) =>
        LET K == Len(trace.sent)
            c == trace.counter
        IN  /\ Len(trace.ids) = K
            /\ LAST_PACKET_ID = c + K
            /\ Len(arrived) >= K
            /\ \A i \in 1..K :
                 /\ trace.ids[i] = c + i
                 /\ arrived[Len(arrived) - K + i] =
                      [ trace.sent[i] EXCEPT !.id = trace.ids[i] ]

\* A batch of two different records was accepted by a store whose counter was
\* past 0, and a batch of K records by the empty store got the ids 1..K.
C20_Witness ==
    /\ trace.op = "ingest_batch" /\ trace.status = 201
    /\ Len(trace.sent) = 2
    /\ trace.sent[1] # trace.sent[2]
    /\ trace.counter >= 1
    /\ trace.ids = << trace.counter + 1, trace.counter + 2 >>

\* C38: an alert action, whatever its action name, changes only the status of
\* the first alert whose alert_id matches: every other alert and every other
\* field of that alert stay as they were, and so do the window and the counter.
C38_ActionFrame ==
    [][ trace'.op = "alert_action" =>
          LET hits == { k \in 1..Len(ALERT_HISTORY) : ALERT_HISTORY[k].alert_id = trace'.arg }
          IN  /\ UNCHANGED << LIVE_PACKET_LOG, LAST_PACKET_ID >>
              /\ Len(ALERT_HISTORY') = Len(ALERT_HISTORY)
              /\ \A k \in 1..Len(ALERT_HISTORY) :
                    ALERT_HISTORY'[k] =
                        IF k \in hits /\ \A h \in hits : k <= h
                        THEN [ ALERT_HISTORY[k] EXCEPT !.status = "Processed" ]
                        ELSE ALERT_HISTORY[k] ]_vars

\* An action with a name the API does not know has processed the younger of
\* two alerts; the older one is still New and the window holds records.
C38_Witness ==
    /\ trace.op = "alert_action"
    /\ trace.action = "reboot"
    /\ trace.was = "New"
    /\ LIVE_PACKET_LOG # << >>
    /\ \E k \in 1..Len(ALERT_HISTORY) :
          /\ ALERT_HISTORY[k].alert_id < trace.arg
          /\ ALERT_HISTORY[k].status = "New"

\* C37: the alert history returned holds exactly the alerts whose status is
\* New, in the order of creation: every alert returned is New, every New alert
\* is returned once, a Processed alert is not returned, and the alerts
\* returned are in the order of the list.
C37_HistoryIsNew ==
    trace.op = "get_alerts" =>
        /\ \A i \in 1..Len(trace.alerts) : trace.alerts[i].status = "New"
        /\ \A k \in 1..Len(ALERT_HISTORY) :
              Cardinality({ i \in 1..Len(trace.alerts) : trace.alerts[i] = ALERT_HISTORY[k] })
                  = IF ALERT_HISTORY[k].status = "New" THEN 1 ELSE 0
        /\ \A i, j \in 1..Len(trace.alerts) :
              i < j => trace.alerts[i].alert_id < trace.alerts[j].alert_id

\* The history was read when an alert had been processed and a younger one
\* was New; the answer holds the alerts that are New and no other.
C37_Witness ==
    /\ trace.op = "get_alerts"
    /\ trace.alerts # << >>
    /\ Len(trace.alerts) < Len(ALERT_HISTORY)
    /\ \E k \in 1..Len(ALERT_HISTORY) :
          /\ ALERT_HISTORY[k].status = "Processed"
          /\ ALERT_HISTORY[k].alert_id < trace.alerts[Len(trace.alerts)].alert_id

\* C36: under sequential requests the alert_ids are 1..n in the order of
\* creation, hence pairwise distinct, and every alert's packet_id is an id
\* that has been assigned.
C36_AlertIds ==
    \A k \in 1..Len(ALERT_HISTORY) :
        /\ ALERT_HISTORY[k].alert_id = k
        /\ ALERT_HISTORY[k].packet_id \in 1..LAST_PACKET_ID

\* Two alerts, the first of them for a record that is not the first.
C36_Witness ==
    /\ Len(ALERT_HISTORY) >= 2
    /\ ALERT_HISTORY[1].packet_id > 1
    /\ ALERT_HISTORY[2].packet_id > ALERT_HISTORY[1].packet_id

\* C31: an ingest request answered 400 leaves the window, the id counter and
\* the alert list as they were before the request, on the batch path and on
\* the single-record path.
C31_FailedIngestNoEffect ==
    [][ (nFailed' = nFailed + 1 /\ trace'.status = 400) => UNCHANGED apiVars ]_vars

\* C29: alerts are kept without bound: no step shortens the alert list or
\* replaces an alert in it; only the status of an alert may change.  An alert
\* stays when its record has left the window.
C29_AlertsKept ==
    [][ /\ Len(ALERT_HISTORY') >= Len(ALERT_HISTORY)
        /\ \A k \in 1..Len(ALERT_HISTORY) :
              [ ALERT_HISTORY'[k] EXCEPT !.status = "" ] =
              [ ALERT_HISTORY[k] EXCEPT !.status = "" ] ]_vars

\* An alert, acted on or not, whose record has been evicted from the window.
C29_Witness ==
    \E k \in 1..Len(ALERT_HISTORY) :
        /\ ALERT_HISTORY[k].packet_id <= LAST_PACKET_ID - MAX_LIVE_PACKETS
        /\ \A i \in 1..Len(LIVE_PACKET_LOG) :
              LIVE_PACKET_LOG[i].id # ALERT_HISTORY[k].packet_id
        /\ \E i \in 1..Len(arrived) : arrived[i].id = ALERT_HISTORY[k].packet_id

AlertsOf(packet_id) ==
    { k \in 1..Len(ALERT_HISTORY) : ALERT_HISTORY[k].packet_id = packet_id }

\* C28: at most one alert is derived per ingested record, and whether one is
\* derived does not depend on the classification: no two alerts name the same
\* record, every alert names a record that was stored, and after an ingest
\* answered 201 a record has an alert exactly if its coin fell that way.
C28_AlertPerRecord ==
    /\ \A id \in 1..LAST_PACKET_ID : Cardinality(AlertsOf(id)) <= 1
    /\ \A k \in 1..Len(ALERT_HISTORY) :
          \E i \in 1..Len(arrived) : arrived[i].id = ALERT_HISTORY[k].packet_id
    /\ (trace.op \in { "ingest_batch", "ingest_single" } /\ trace.status = 201) =>
          \A i \in 1..Len(trace.ids) : (AlertsOf(trace.ids[i]) # { }) <=> trace.coins[i]

\* A Normal record with an alert and an Anomaly record without one.
C28_Witness ==
    /\ \E i \in 1..Len(LIVE_PACKET_LOG) :
          /\ LIVE_PACKET_LOG[i].classification = "Normal"
          /\ AlertsOf(LIVE_PACKET_LOG[i].id) # { }
    /\ \E i \in 1..Len(LIVE_PACKET_LOG) :
          /\ LIVE_PACKET_LOG[i].classification = "Anomaly"
          /\ AlertsOf(LIVE_PACKET_LOG[i].id) = { }

-----------------------------------------------------------------------------
(* The whole pipeline, capture to store: SpecPipeline *)

\* Packets captured in one run.
MaxPackets == 2

\* An ARP frame and a TCP segment with SYN, ACK, FIN, RST and PSH set.
Packets ==
    { Packet(FALSE, Absent, Absent, Absent, FALSE, FALSE, { }, 42),
      Packet(TRUE, 1, 6, 64, TRUE, FALSE, { "S", "A", "F", "R", "P" }, 1400) }

\* The classifier's answers: below, at and above a sensitivity of 0.5 and 0.9.
ModelAnswers ==
    { ModelAnswer(TRUE, 0, 0) } \cup
    { ModelAnswer(FALSE, 1, c) : c \in { 42000, 50000, 90000 } } \cup
    { ModelAnswer(FALSE, 0, 20000) }

SettingsFiles ==
    { [ state |-> "missing", sensitivity |-> Absent ],
      [ state |-> "corrupt", sensitivity |-> Absent ],
      [ state |-> "ok", sensitivity |-> Absent ],
      [ state |-> "ok", sensitivity |-> 90000 ] }

\* The sensitivities an operator saves; Absent is a body without the key.
SavedSensitivities == { Absent, DEFAULT_SENSITIVITY, 90000 }

InitPipeline ==
    \E file \in SettingsFiles, artifact \in Artifacts : InitWith(file, artifact)

\* The classifier is asked only for a packet that has features, and answers only
\* if it is a classifier.
PipelineProcess ==
    /\ Len(captured) < MaxPackets
    /\ \E packet \in Packets :
         \E answer \in IF packet.ip /\ ml_model = "model"
                       THEN ModelAnswers ELSE { ModelAnswer(TRUE, 0, 0) } :
             ProcessPacket(packet, answer)

\* The coin of ingest_packet falls either way for the first record of a batch.
PipelineDelivered ==
    \E coin \in BOOLEAN :
        SendDelivered([ i \in 1..Len(batch_to_send) |-> coin /\ i = 1 ])

PipelineSave ==
    /\ \E sensitivity \in SavedSensitivities : SaveSettings(sensitivity)
    /\ UNCHANGED << model_file, snifferVars, threads >>

NextPipeline ==
    \/ SnifferStart
    \/ PipelineProcess
    \/ SendTake
    \/ PipelineDelivered
    \/ SendFailed
    \/ PipelineSave

SpecPipeline == InitPipeline /\ [][NextPipeline]_vars

\* The records of the first n delivery attempts, in order.
RECURSIVE Tried(_)
Tried(n) == IF n = 0 THEN << >> ELSE Tried(n - 1) \o attempts[n].batch

\* The capture times of the records of a sequence.
Stamps(records) == { records[i].timestamp : i \in 1..Len(records) }

\* C12: every record appended to the emitter buffer is in at most one delivery
\* attempt; a record that has been in an attempt is neither in the buffer nor in
\* the batch in flight again; the records of a failed attempt never reach the
\* store; and no record reaches the store twice.
C12_AtMostOnce ==
    LET tried == Tried(Len(attempts))
    IN  /\ \A i, j \in 1..Len(tried) :
             i # j => tried[i].timestamp # tried[j].timestamp
        /\ Stamps(tried) \cap (Stamps(LIVE_PACKETS) \cup Stamps(batch_to_send)) = { }
        /\ \A n \in 1..Len(attempts) :
             attempts[n].outcome = "failed" =>
                 Stamps(attempts[n].batch) \cap Stamps(arrived) = { }
        /\ \A i, j \in 1..Len(arrived) :
             i # j => arrived[i].timestamp # arrived[j].timestamp

\* A delivery failed, a later one reached the store, and the record of the
\* failed attempt is in neither the buffer nor the store.
C12_Witness ==
    /\ Len(attempts) = 2
    /\ attempts[1].outcome = "failed"
    /\ attempts[2].outcome = "sent"
    /\ arrived # << >>
    /\ LIVE_PACKETS = << >>
    /\ Stamps(attempts[1].batch) \cap Stamps(arrived) = { }

\* send_traffic_batch has just returned from a delivery the API answered 201.
FlushSucceeded == trace.op = "ingest_batch" /\ trace.status = 201

\* C15 as stated: when send_traffic_batch returns from a successful delivery
\* the emitter buffer holds no record.
C15_EmptyAfterFlush == FlushSucceeded => LIVE_PACKETS = << >>

\* C15, amended: the buffer is empty when the batch has been taken, and when
\* send_traffic_batch returns from a successful delivery the buffer holds no
\* record of the batch delivered, only records captured after all of it.
C15_EmptyAfterSwap ==
    /\ trace.op = "send_take" => (LIVE_PACKETS = << >> /\ batch_to_send # << >>)
    /\ FlushSucceeded =>
         LET batch == attempts[Len(attempts)].batch
         IN  /\ batch # << >>
             /\ batch_to_send = << >>
             /\ \A i \in 1..Len(LIVE_PACKETS), j \in 1..Len(batch) :
                  LIVE_PACKETS[i].timestamp > batch[j].timestamp

\* A delivery succeeded while the buffer held a record captured during it.
C15_Witness ==
    /\ FlushSucceeded
    /\ LIVE_PACKETS # << >>
    /\ LIVE_PACKETS[1].timestamp > attempts[Len(attempts)].batch[1].timestamp

\* C22: every record in the store carries the label and the confidence the
\* decision policy made of the classifier's answer for its packet: Normal with
\* 1 - confidence, to four decimals, for an Anomaly below the sensitivity read,
\* the classifier's own answer otherwise.
C22_StoredDecision ==
    \A i \in 1..Len(arrived) :
        LET t == arrived[i].timestamp
        IN  /\ t \in 1..Len(judged)
            /\ judged[t] # << >>
            /\ LET label       == judged[t][1][1]
                   confidence  == judged[t][1][2]
                   sensitivity == judged[t][2]
                   lowered     == label = 1 /\ confidence < sensitivity
               IN  /\ arrived[i].classification =
                        (IF label = 1 /\ ~lowered THEN "Anomaly" ELSE "Normal")
                   /\ arrived[i].confidence * (Scale \div Places4) \in
                        IF lowered
                        THEN (Scale - confidence - 5)..(Scale - confidence + 4)
                        ELSE (confidence - 5)..(confidence + 4)
                   /\ arrived[i].src_ip = captured[t].src

\* The TCP segment of 1400 bytes with TTL 64 and SYN, ACK, FIN and RST set, which
\* the classifier called (Anomaly, 0.42) at sensitivity 0.5, is in the window
\* as Normal with confidence 0.5800.
C22_Witness ==
    \E i \in 1..Len(LIVE_PACKET_LOG) :
        LET t == LIVE_PACKET_LOG[i].timestamp
        IN  /\ captured[t].tcp
            /\ captured[t].len = 1400 /\ captured[t].ttl = 64
            /\ { "S", "A", "F", "R" } \subseteq captured[t].flags
            /\ judged[t] = << << 1, 42000 >>, 50000 >>
            /\ LIVE_PACKET_LOG[i].classification = "Normal"
            /\ LIVE_PACKET_LOG[i].confidence = 5800

\* The position in the emitter's history of the record captured at `time`.
AppendedAt(time) == CHOOSE p \in 1..Len(appended) : appended[p].timestamp = time

\* C33: capture order is kept end to end: every stored record was appended to
\* the emitter buffer, and of two stored records the one appended earlier has
\* the smaller id, within one batch and across batches.
C33_OrderPreserved ==
    /\ \A i \in 1..Len(arrived) : arrived[i].timestamp \in Stamps(appended)
    /\ \A i, j \in 1..Len(arrived) :
          AppendedAt(arrived[i].timestamp) < AppendedAt(arrived[j].timestamp) =>
              arrived[i].id < arrived[j].id

\* Two records stored from two batches, or two from one batch.
C33_Witness ==
    /\ Len(arrived) >= 2
    /\ \/ \E m, n \in 1..Len(attempts) :
             /\ m < n
             /\ attempts[m].outcome = "sent" /\ attempts[m].batch # << >>
             /\ attempts[n].outcome = "sent" /\ attempts[n].batch # << >>
       \/ \E n \in 1..Len(attempts) :
             attempts[n].outcome = "sent" /\ Len(attempts[n].batch) >= 2

\* C26: a flush that finds the buffer empty does nothing: no delivery is
\* attempted, nothing reaches the store, the buffer stays empty, and the sender
\* is back in its loop, ready for the next scheduled flush.
C26_EmptyFlushNoOp ==
    [][ (trace'.op \in { "send_empty", "send_take" } /\ LIVE_PACKETS = << >>) =>
            /\ trace'.op = "send_empty"
            /\ attempts' = attempts
            /\ LIVE_PACKETS' = << >>
            /\ batch_to_send' = batch_to_send
            /\ sender_pc' = "idle"
            /\ sniffer_pc' = "running"
            /\ UNCHANGED << apiVars, arrived >> ]_vars

\* An empty flush after an earlier batch was delivered.
C26_Witness ==
    /\ trace.op = "send_empty"
    /\ LIVE_PACKETS = << >>
    /\ \E i \in 1..Len(attempts) : attempts[i].outcome = "sent"

-----------------------------------------------------------------------------
(* The capture thread and the sender thread, statement by statement:       *)
(* SpecEmitter, and SpecEmitterFair for what must eventually happen        *)

MaxFeed == 3

\* The classifier answers Anomaly above every sensitivity, or Normal.
EmitterAnswers == { ModelAnswer(FALSE, 1, 90000), ModelAnswer(FALSE, 0, 20000) }

\* settings.json as the operator panel writes it, and with a sensitivity that
\* is no number.
EmitterFiles == { DefaultFile, [ state |-> "ok", sensitivity |-> BadValue ] }

InitEmitter == \E file \in EmitterFiles : InitWith(file, "bare_model")

EmitterClassify ==
    /\ Len(captured) < MaxFeed
    /\ \E packet \in Packets :
         \E answer \in IF packet.ip THEN EmitterAnswers ELSE { ModelAnswer(TRUE, 0, 0) } :
             CaptureClassify(packet, answer)

\* No record of the batch makes an alert.
EmitterDelivered == SendDelivered([ i \in 1..Len(batch_to_send) |-> FALSE ])

NextEmitter ==
    \/ SnifferStart
    \/ EmitterClassify
    \/ CaptureAcquire
    \/ CaptureAppend
    \/ SenderAcquire
    \/ SenderCopy
    \/ SenderClear
    \/ EmitterDelivered
    \/ SendFailed
    \/ Interrupt
    \/ SniffFails

SpecEmitter == InitEmitter /\ [][NextEmitter]_vars

\* The sender thread is a loop that sleeps SEND_INTERVAL between calls and whose
\* request has a timeout, and the capture thread leaves its with block: each
\* step of either that stays possible is taken.
EmitterFairness ==
    /\ WF_vars(SenderAcquire)
    /\ WF_vars(SenderCopy)
    /\ WF_vars(SenderClear)
    /\ WF_vars(EmitterDelivered \/ SendFailed)
    /\ WF_vars(CaptureAcquire)
    /\ WF_vars(CaptureAppend)

SpecEmitterFair == SpecEmitter /\ EmitterFairness

\* C13: the records given to delivery attempts, then the batch in flight, then
\* the buffer are at every moment the records appended so far, each once and
\* in order: a batch is exactly the buffer at its swap, a record appended
\* during a delivery is in the buffer and not in that batch, and outside the
\* sender's locked section no record is both in a batch and in the buffer.
C13_AtomicSwap ==
    LET tried == Tried(Len(attempts))
    IN  /\ sender_pc \in { "idle", "locked" } =>
             (batch_to_send = << >> /\ tried \o LIVE_PACKETS = appended)
        /\ sender_pc = "copied" =>
             (batch_to_send = LIVE_PACKETS /\ tried \o LIVE_PACKETS = appended)
        /\ sender_pc = "post" =>
             /\ tried \o batch_to_send \o LIVE_PACKETS = appended
             /\ Stamps(batch_to_send) \cap Stamps(LIVE_PACKETS) = { }
        /\ (trace.op = "append" /\ sender_pc = "post") =>
             /\ LIVE_PACKETS[Len(LIVE_PACKETS)] = trace.details[1]
             /\ trace.arg \notin Stamps(batch_to_send)

\* A record was appended while a delivery was in flight; the delivery is over,
\* did not include it, and the record waits in the buffer.
C13_Witness ==
    /\ Len(attempts) = 1
    /\ sender_pc = "idle"
    /\ Len(LIVE_PACKETS) = 1
    /\ Len(appended) = Len(attempts[1].batch) + 1
    /\ LIVE_PACKETS[1].timestamp \notin Stamps(attempts[1].batch)

\* C34: the lock is held only inside the two with blocks: by the sender between
\* taking it and the empty return or the clear, by the capture thread for its
\* append.  It is free on every path out of them, never held while a delivery
\* is in flight, and a capture thread that waits for it during a delivery can
\* take it at once.
C34_LockDiscipline ==
    /\ lock = "sender" <=> sender_pc \in { "locked", "copied" }
    /\ lock = "capture" <=> capture_pc = "append"
    /\ sender_pc \in { "idle", "post" } => lock # "sender"
    /\ (sniffer_pc = "running" /\ sender_pc = "post" /\ capture_pc = "lock") =>
          ENABLED CaptureAcquire
    /\ (sniffer_pc = "running" /\ sender_pc = "post" /\ capture_pc = "append") =>
          ENABLED CaptureAppend

\* A record was appended under the lock while a delivery was in flight, and the
\* lock is free again.
C34_Witness ==
    /\ sender_pc = "post"
    /\ trace.op = "append"
    /\ lock = "free"
    /\ Len(appended) > Len(batch_to_send) + Len(Tried(Len(attempts)))

\* A record of the buffer that is in no delivery attempt yet, after a failure.
WaitsAfterFailure(t) ==
    /\ \E n \in 1..Len(attempts) : attempts[n].outcome = "failed"
    /\ t \in Stamps(LIVE_PACKETS)

\* C16: the step that fails a delivery leaves the sender thread back in its loop;
\* the sender holds the lock neither between calls nor during a request, so
\* process_packet is not blocked by either; and a record that is in
\* the buffer after a failure is eventually in a delivery attempt, unless the
\* capture process is stopped first.
C16_FailureDoesNotStop ==
    /\ [][ ( /\ Len(attempts') > Len(attempts)
             /\ attempts'[Len(attempts')].outcome = "failed" ) =>
               (sender_pc' = "idle" /\ lock' # "sender") ]_vars
    /\ [](sender_pc \in { "idle", "post" } => lock # "sender")
    /\ \A t \in 1..MaxFeed :
         WaitsAfterFailure(t) ~>
             (t \in Stamps(Tried(Len(attempts))) \/ sniffer_pc = "stopped")

\* A delivery failed, and a record appended after the failure was in the next
\* attempt.
C16_Witness ==
    /\ Len(attempts) = 2
    /\ attempts[1].outcome = "failed"
    /\ sniffer_pc = "running"
    /\ \A i \in 1..Len(attempts[2].batch), j \in 1..Len(attempts[1].batch) :
         attempts[2].batch[i].timestamp > attempts[1].batch[j].timestamp

\* C17: an error raised while one packet is processed does not end the capture:
\* the sniffer is still running after it.
C17_ErrorIsolation == trace.op = "process_error" => sniffer_pc = "running"

\* C18: when the capture is interrupted, the records that were in the emitter
\* buffer have been handed to a last delivery attempt by the time control
\* returns.
C18_FinalFlush == trace.op = "interrupt" => LIVE_PACKETS = << >>

\* C23: the capture ends only by an interrupt or by a failure of the capture
\* source, and the failure is printed; no step of another kind takes the
\* sniffer from running to stopped.
C23_StopsOnlyOnSignalOrSource ==
    [][ (sniffer_pc = "running" /\ sniffer_pc' = "stopped") =>
            \/ trace'.op = "interrupt"
            \/ trace'.op = "sniff_error" /\ trace'.was = "printed" ]_vars

-----------------------------------------------------------------------------
(* Many records and few flushes: SpecFeed *)

FedRecords == 25

MaxFlushes == 1

\* A TCP segment the classifier calls Normal.
FeedProcess ==
    /\ Len(captured) < FedRecords
    /\ ProcessPacket(Packet(TRUE, 1, 6, 64, TRUE, FALSE, { "S" }, 60),
                     ModelAnswer(FALSE, 0, 90000))

\* The sender thread's timer fires.
FeedTake ==
    /\ Len(attempts) < MaxFlushes
    /\ SendTake

NextFeed ==
    \/ SnifferStart
    \/ FeedProcess
    \/ FeedTake
    \/ EmitterDelivered
    \/ SendFailed

SpecFeed == InitEmitter /\ [][NextFeed]_vars

\* C14: the buffer reaching BATCH_SIZE records triggers a flush without waiting
\* for the timer: once 25 records have been fed and the timer has not fired,
\* at least 2 delivery attempts have been made.
C14_SizeTrigger ==
    (~timer_fired /\ Len(appended) >= 2 * BATCH_SIZE + BATCH_SIZE \div 2) =>
        Len(attempts) >= 2

-----------------------------------------------------------------------------
(* Ingest requests served by concurrent threads: SpecConcurrent *)

\* The entries of all request bodies together.
MaxEntries == 3

\* A record with or without an alert, and a value that is no JSON object.
ThreadItems == { Item(Plain, FALSE), Item(Plain, TRUE), Item(NonDict, FALSE) }

RECURSIVE ThreadRequests(_)
ThreadRequests(n) ==
    IF n = 0 THEN { << >> }
    ELSE { << it >> \o rest : it \in ThreadItems, rest \in ThreadRequests(n - 1) }

\* The entries thread t has not yet counted.
EntriesLeft(t) ==
    CASE threads[t].pc \in { "idle", "truncate" } -> 0
      [] threads[t].pc = "loop" -> Len(threads[t].logs) - threads[t].i + 1
      [] OTHER -> Len(threads[t].logs) - threads[t].i

RECURSIVE SumLeft(_)
SumLeft(ts) ==
    IF ts = { } THEN 0
    ELSE LET t == CHOOSE x \in ts : TRUE IN EntriesLeft(t) + SumLeft(ts \ { t })

ConcurrentBegin ==
    \E t \in ServerThreads :
        \E n \in 1..(MaxEntries - LAST_PACKET_ID - SumLeft(ServerThreads)) :
            \E items \in ThreadRequests(n) : IngestBegin(t, Entries(items), Coins(items))

ConcurrentIncrement == \E t \in ServerThreads : IngestIncrement(t)

ConcurrentAssign == \E t \in ServerThreads : IngestAssign(t)

ConcurrentAppend == \E t \in ServerThreads : IngestAppend(t)

ConcurrentIds == \E t \in ServerThreads : IngestIds(t)

ConcurrentAlert == \E t \in ServerThreads : IngestAlert(t)

ConcurrentTruncate == \E t \in ServerThreads : IngestTruncate(t)

\* handle_alert_action served by a third thread while the ingest requests are
\* in progress; the request names an alert that exists.
ConcurrentAlertAction ==
    /\ \E alert_id \in 1..Len(ALERT_HISTORY) : HandleAlertAction(alert_id, "block_ip")
    /\ UNCHANGED << threads, ThreadFrame >>

NextConcurrent ==
    \/ ConcurrentBegin
    \/ ConcurrentIncrement
    \/ ConcurrentAssign
    \/ ConcurrentAppend
    \/ ConcurrentIds
    \/ ConcurrentAlert
    \/ ConcurrentTruncate
    \/ ConcurrentAlertAction

SpecConcurrent == InitStore /\ [][NextConcurrent]_vars

\* C19: under concurrent ingest requests no two records ever get the same id,
\* and when every request has been answered, none of them with an error, every id
\* from 1 to the counter is the id of a record.
C19_AtomicIds ==
    /\ \A i, j \in 1..Len(arrived) : i # j => arrived[i].id # arrived[j].id
    /\ (nFailed = 0 /\ \A t \in ServerThreads : threads[t].pc = "idle") =>
         { arrived[i].id : i \in 1..Len(arrived) } = 1..LAST_PACKET_ID

\* C27: under concurrent mutating requests no accepted update is lost: the
\* window is in the order of the ids, every record appended whose id is among
\* the MAX_LIVE_PACKETS greatest ids assigned is in the window, and an alert
\* that an alert action has set to Processed stays Processed.
C27_NoLostUpdate ==
    [][ /\ \A i, j \in 1..Len(LIVE_PACKET_LOG') :
              i < j => LIVE_PACKET_LOG'[i].id <= LIVE_PACKET_LOG'[j].id
        /\ \A i \in 1..Len(arrived') :
              arrived'[i].id > LAST_PACKET_ID' - MAX_LIVE_PACKETS =>
                  \E j \in 1..Len(LIVE_PACKET_LOG') : LIVE_PACKET_LOG'[j] = arrived'[i]
        /\ \A i \in 1..Len(ALERT_HISTORY) :
              ALERT_HISTORY[i].status = "Processed" =>
                  (i <= Len(ALERT_HISTORY') /\ ALERT_HISTORY'[i].status = "Processed") ]_vars

-----------------------------------------------------------------------------
(* Readers beside an ingest into a full window: SpecFull *)

\* Entries ingested after the window has been filled.
MaxLate == 2

\* One batch request of MAX_LIVE_PACKETS records, none of which makes an alert,
\* served before any other.
FullFill ==
    /\ LAST_PACKET_ID = 0
    /\ \A t \in ServerThreads : threads[t].pc = "idle"
    /\ IngestBatch([ i \in 1..MAX_LIVE_PACKETS |-> Plain ],
                   [ i \in 1..MAX_LIVE_PACKETS |-> FALSE ])
    /\ UNCHANGED << threads, ThreadFrame >>

FullBegin ==
    /\ LAST_PACKET_ID >= MAX_LIVE_PACKETS
    /\ \E t \in ServerThreads :
         \E n \in 1..(MAX_LIVE_PACKETS + MaxLate - LAST_PACKET_ID - SumLeft(ServerThreads)) :
             \E items \in ThreadRequests(n) : IngestBegin(t, Entries(items), Coins(items))

\* get_live_traffic served by a further thread between two statements of the
\* ingest requests.
FullRead ==
    /\ GetLiveTraffic
    /\ UNCHANGED << threads, ThreadFrame >>

NextFull ==
    \/ FullFill
    \/ FullBegin
    \/ ConcurrentIncrement
    \/ ConcurrentAssign
    \/ ConcurrentAppend
    \/ ConcurrentIds
    \/ ConcurrentAlert
    \/ ConcurrentTruncate
    \/ FullRead

SpecFull == InitStore /\ [][NextFull]_vars

\* C35: a reader of the live log never gets more than MAX_LIVE_PACKETS
\* records, also while a batch ingest is in progress.
C35_ReaderBound ==
    trace.op = "get_live" => Len(trace.logs) <= MAX_LIVE_PACKETS

-----------------------------------------------------------------------------
(* Batch and single requests on an empty and on a full window: SpecEquiv *)

\* The records a run may send: up to MaxLate from the empty store, or the
\* filling batch and up to MaxLate after it.
EquivRoom ==
    (IF LAST_PACKET_ID < MAX_LIVE_PACKETS THEN 0 ELSE MAX_LIVE_PACKETS) + MaxLate
        - LAST_PACKET_ID

EquivBatch ==
    /\ \E n \in 0..Min(MaxBatch, EquivRoom) :
         \E items \in FreeRequests(n) : IngestBatch(Entries(items), Coins(items))
    /\ UNCHANGED << CONFIG, settings_file, model_file, snifferVars, threads >>

EquivSingle ==
    /\ EquivRoom >= 1
    /\ \E it \in FreeItems : IngestSingle(it.e, it.coin)
    /\ UNCHANGED << CONFIG, settings_file, model_file, snifferVars, threads >>

NextEquiv ==
    \/ FullFill
    \/ EquivBatch
    \/ EquivSingle

SpecEquiv == InitStore /\ [][NextEquiv]_vars

\* The store after the records `logs` have been sent as successive single
\* requests to the store as it is now, the coin of request i being coins[i].
AsSingles(logs, coins) ==
    SingleLoop([ log |-> LIVE_PACKET_LOG, alerts |-> ALERT_HISTORY,
                 last |-> LAST_PACKET_ID, ids |-> << >>, ok |-> TRUE ],
               logs, coins, 1)

\* C39: a batch request leaves the window and the id counter as the same
\* records sent one by one as single requests would, however the coins fall.
\* (Checked for the batches of up to MaxBatch records; the filling batch is
\* too long to try every fall of its coins.)
C39_BatchEqualsSingles ==
    [][ (trace'.op = "ingest_batch" /\ Len(trace'.sent) <= MaxBatch) =>
          \A coins \in [ 1..Len(trace'.sent) -> BOOLEAN ] :
              LET st == AsSingles(trace'.sent, coins)
              IN  LIVE_PACKET_LOG' = st.log /\ LAST_PACKET_ID' = st.last ]_vars

\* What does hold of the two paths: a batch request of at least one record that
\* is answered 201 leaves the window and the id counter as the same records
\* sent one by one as single requests would, however the coins fall and
\* whatever the single requests are answered.
BatchEqualsSinglesOn201 ==
    [][ ( /\ trace'.op = "ingest_batch"
          /\ trace'.status = 201
          /\ Len(trace'.sent) \in 1..MaxBatch ) =>
          \A coins \in [ 1..Len(trace'.sent) -> BOOLEAN ] :
              LET st == AsSingles(trace'.sent, coins)
              IN  LIVE_PACKET_LOG' = st.log /\ LAST_PACKET_ID' = st.last ]_vars

-----------------------------------------------------------------------------
(* Feature extraction over many kinds of packet: SpecExtract *)

MaxExtract == 2

\* An ARP frame; TCP segments with every combination of SYN, ACK, FIN and RST,
\* two of them with PSH as well; a UDP datagram, an ICMP message, and an
\* IP-in-IP packet whose inner segment scapy finds as the TCP layer.
ExtractPackets ==
    { Packet(FALSE, Absent, Absent, Absent, FALSE, FALSE, { }, 42) } \cup
    { Packet(TRUE, 1, 6, 64, TRUE, FALSE, flags, 60) : flags \in SUBSET { "S", "A", "F", "R" } } \cup
    { Packet(TRUE, 2, 6, 128, TRUE, FALSE, flags, 1400) :
        flags \in { { "P" }, { "S", "A", "F", "R", "P" } } } \cup
    { Packet(TRUE, 3, 17, 64, FALSE, TRUE, { }, 90),
      Packet(TRUE, 4, 1, 255, FALSE, FALSE, { }, 98),
      Packet(TRUE, 5, 4, 32, TRUE, FALSE, { "S" }, 80) }

\* The artifact is the one generate_model.py writes; its classifier, trained on
\* SNIFFER_FEATURES, raises on a vector of another length.
InitExtract == InitWith(DefaultFile, "dict_model")

ExtractProcess ==
    /\ Len(captured) < MaxExtract
    /\ \E packet \in ExtractPackets : ProcessPacket(packet, ModelAnswer(TRUE, 0, 0))

NextExtract ==
    \/ SnifferStart
    \/ ExtractProcess

SpecExtract == InitExtract /\ [][NextExtract]_vars

\* C21: for a packet with an IP header extract_features returns, in this order,
\* the protocol number and the TTL of the IP header as they are, the wire
\* length, and the number of SYN, ACK, FIN and RST flags set (0 to 4) if there
\* is a TCP layer, 0 otherwise; the vector is a function of the packet alone.
C21_FeatureVector ==
    (trace.op = "process" /\ captured[trace.arg].ip) =>
        LET packet == captured[trace.arg]
            count  == IF packet.tcp
                      THEN Cardinality(packet.flags \cap { "S", "A", "F", "R" })
                      ELSE 0
        IN  /\ Len(trace.features) = 4
            /\ trace.features[1] = packet.proto
            /\ trace.features[2] = packet.len
            /\ trace.features[3] = packet.ttl
            /\ trace.features[4] = count
            /\ count \in 0..4
            /\ \A t \in 1..Len(captured) :
                 captured[t] = packet => judged[t] # << >>

\* A TCP segment with PSH and nothing else set gave the count 0, after a UDP
\* datagram had been processed.
C21_Witness ==
    /\ trace.op = "process"
    /\ Len(captured) = 2
    /\ captured[1].udp
    /\ captured[2].flags = { "P" }
    /\ trace.features = << 6, 1400, 128, 0 >>

\* C24: the vector given to the classifier has the length and the field order
\* of the feature list the model was trained on.
C24_SharedFeatureOrder ==
    (trace.op = "process" /\ trace.features # << >>) =>
        /\ Len(trace.features) = Len(SNIFFER_FEATURES)
        /\ FeatureOrder = SNIFFER_FEATURES

-----------------------------------------------------------------------------
(* The reading endpoints and the settings: SpecReports *)

\* Records sent in one run of SpecReports.
MaxReported == 2

\* What POST /api/settings may carry as 'sensitivity': no such key, 0.7, 1.5,
\* and a value that is no number.
PostedSensitivities == { Absent, 70000, 150000, BadValue }

ReportsBatch ==
    /\ \E n \in 0..MaxBatch :
         /\ LAST_PACKET_ID + n <= MaxReported
         /\ \E items \in FreeRequests(n) : IngestBatch(Entries(items), Coins(items))
    /\ UNCHANGED << CONFIG, settings_file, model_file, snifferVars, threads >>

ReportsLive ==
    /\ GetLiveTraffic
    /\ UNCHANGED << CONFIG, settings_file, model_file, snifferVars, threads >>

ReportsTrends ==
    /\ GetAnalyticsTrends
    /\ UNCHANGED << CONFIG, settings_file, model_file, snifferVars, threads >>

ReportsLookup ==
    /\ \E id \in 0..(LAST_PACKET_ID + 1) : GetPacketDetails(id)
    /\ UNCHANGED << CONFIG, settings_file, model_file, snifferVars, threads >>

ReportsSave ==
    /\ \E sensitivity \in PostedSensitivities : SaveSettings(sensitivity)
    /\ UNCHANGED << model_file, snifferVars, threads >>

\* One packet is captured and judged.
ReportsProcess ==
    /\ captured = << >>
    /\ ProcessPacket(Packet(TRUE, 1, 6, 64, TRUE, FALSE, { "S" }, 60),
                     ModelAnswer(FALSE, 1, 90000))

NextReports ==
    \/ ReportsBatch
    \/ ReportsLive
    \/ ReportsTrends
    \/ ReportsLookup
    \/ ReportsSave
    \/ SnifferStart
    \/ ReportsProcess

SpecReports == InitExtract /\ [][NextReports]_vars

\* The number of stored records that count under `key` in a list of statistics.
Stored(field, key) ==
    Cardinality({ i \in 1..Len(LIVE_PACKET_LOG) :
                    CASE field = "classification" -> LIVE_PACKET_LOG[i].classification = key
                      [] field = "protocol"       -> key = "Unknown"
                      [] field = "src_ip"         -> LIVE_PACKET_LOG[i].src_ip = key })

FromStore(stats, field) ==
    \A i \in 1..Len(stats) : stats[i][2] = Stored(field, stats[i][1])

\* C25: the reports keep 'no data yet' apart from data and from 'id not
\* found': the live log is the stored window (empty when nothing is stored),
\* every count of the analytics report is the number of stored records with
\* that key, and the lookup of an id no stored record has answers 404 with no
\* record.
C25_NoDataIsNotData ==
    /\ trace.op = "get_live" => trace.logs = LIVE_PACKET_LOG
    /\ trace.op = "get_trends" =>
          /\ FromStore(trace.classification_stats, "classification")
          /\ FromStore(trace.protocol_stats, "protocol")
          /\ FromStore(trace.ip_stats, "src_ip")
    /\ (trace.op = "get_packet"
          /\ \A i \in 1..Len(LIVE_PACKET_LOG) : LIVE_PACKET_LOG[i].id # trace.arg) =>
          (trace.status = 404 /\ trace.details = << >>)

\* C30: the sensitivity in effect is a number in [0, 1]: the value
\* get_live_traffic reports and the value process_packet compares the
\* confidence with both lie between 0 and Scale.
C30_SensitivityInRange ==
    /\ trace.op = "get_live" => trace.sensitivity \in 0..Scale
    /\ (trace.op \in { "process", "process_error" } /\ trace.features # << >>) =>
          trace.sensitivity \in 0..Scale

-----------------------------------------------------------------------------
(* The threshold rule at and around the sensitivity: SpecPolicy *)

\* Packets judged in one run of SpecPolicy.
MaxJudged == 2

\* settings.json with the sensitivities 0.5, 0.9 and 0.50004.
PolicyFiles ==
    { [ state |-> "ok", sensitivity |-> v ] : v \in { DEFAULT_SENSITIVITY, 90000, 50004 } }

\* The classifier's answers: both labels, with confidences 0 and 1, just below
\* and at each sensitivity, and well above.
PolicyAnswers ==
    { ModelAnswer(FALSE, label, c) :
        label \in { 0, 1 },
        c \in { 0, 49996, 50000, 50004, 89996, 90000, 97000, Scale } }

InitPolicy == \E file \in PolicyFiles : InitWith(file, "dict_model")

PolicyProcess ==
    /\ Len(captured) < MaxJudged
    /\ \E answer \in PolicyAnswers :
         ProcessPacket(Packet(TRUE, 1, 6, 64, TRUE, FALSE, { "S", "A" }, 60), answer)

NextPolicy ==
    \/ SnifferStart
    \/ PolicyProcess

SpecPolicy == InitPolicy /\ [][NextPolicy]_vars

\* The confidence of a record in units of 1/Scale.
Spelled(record) == record.confidence * (Scale \div Places4)

\* C32: every record handed to the emitter as Anomaly has a confidence greater
\* than or equal to the sensitivity used for it, every record relabelled from
\* Anomaly to Normal has a confidence greater than 1 - sensitivity, and the
\* confidence of a record lies in [0, 1] when the classifier's does.
C32_EmittedConfidence ==
    \A i \in 1..Len(appended) :
        LET rec         == appended[i]
            label       == judged[rec.timestamp][1][1]
            confidence  == judged[rec.timestamp][1][2]
            sensitivity == judged[rec.timestamp][2]
        IN  /\ rec.classification = "Anomaly" => Spelled(rec) >= sensitivity
            /\ (label = 1 /\ rec.classification = "Normal") =>
                  Spelled(rec) > Scale - sensitivity
            /\ confidence \in 0..Scale => Spelled(rec) \in 0..Scale

\* C32, amended: the bounds hold for the confidence before it is formatted,
\* and the record carries that value rounded to four decimals: a record is
\* Anomaly only if the classifier said Anomaly with a confidence greater than
\* or equal to the sensitivity, and the record spells that confidence to within
\* half of 1/10000; a record relabelled from Anomaly to Normal had a confidence
\* less than the sensitivity, and spells 1 - confidence to within half of
\* 1/10000; the spelled confidence lies in [0, 1] when the classifier's does.
C32_EmittedConfidenceRounded ==
    \A i \in 1..Len(appended) :
        LET rec         == appended[i]
            label       == judged[rec.timestamp][1][1]
            confidence  == judged[rec.timestamp][1][2]
            sensitivity == judged[rec.timestamp][2]
        IN  /\ rec.classification = "Anomaly" =>
                  /\ label = 1
                  /\ confidence >= sensitivity
                  /\ Spelled(rec) \in (confidence - 5)..(confidence + 4)
            /\ (label = 1 /\ rec.classification = "Normal") =>
                  /\ Scale - confidence > Scale - sensitivity
                  /\ Spelled(rec) \in (Scale - confidence - 5)..(Scale - confidence + 4)
            /\ confidence \in 0..Scale => Spelled(rec) \in 0..Scale

\* A record relabelled at confidence 0.49996 under sensitivity 0.5 spells
\* 0.5000, and a record kept as Anomaly is in the buffer with it.
C32_Witness ==
    /\ \E i \in 1..Len(appended) :
          /\ judged[appended[i].timestamp] = << << 1, 49996 >>, DEFAULT_SENSITIVITY >>
          /\ appended[i].classification = "Normal"
          /\ Spelled(appended[i]) = Scale - DEFAULT_SENSITIVITY
    /\ \E i \in 1..Len(appended) : appended[i].classification = "Anomaly"

-----------------------------------------------------------------------------
(* The classifier called directly: SpecClassifier *)

\* None or the empty vector, the two vectors of tests/test_ml_engine.py, and the
\* vector of a UDP datagram.
FeatureInputs == { << >>, << 6, 60, 128, 1 >>, << 6, 1400, 64, 4 >>, << 17, 42, 64, 0 >> }

\* What a binary classifier can answer: a class 0 or 1 with its probability,
\* the ends of the range included, or an exception.
ClassifierAnswers ==
    ModelAnswers \cup
    { ModelAnswer(FALSE, c, p) : c \in { 0, 1 }, p \in { 0, Scale } }

ClassifierPredict ==
    /\ \E features \in FeatureInputs, answer \in ClassifierAnswers :
         Predict(features, answer)
    /\ UNCHANGED << sniffer_pc, SETTINGS, ml_model, LIVE_PACKETS, sender_pc,
                    batch_to_send, lockVars, appended, attempts, timer_fired, captured, judged >>

NextClassifier ==
    \/ SnifferStart
    \/ ClassifierPredict

SpecClassifier == InitPipeline /\ [][NextClassifier]_vars

\* C11: predict always returns a pair (label, confidence) with label 0 or 1 and
\* confidence between 0.0 and 1.0, and the pair is exactly (0, 0.0) when no
\* model is loaded, when the input is None or empty, or when a call of the
\* classifier raises.
C11_PredictTotal ==
    trace.op = "predict" =>
        /\ Len(trace.raw) = 2
        /\ trace.raw[1] \in { 0, 1 }
        /\ trace.raw[2] \in 0..Scale
        /\ ( \/ ml_model # "model"
             \/ trace.features = << >>
             \/ trace.asked[1].raises ) => trace.raw = << 0, 0 >>
        /\ ~( \/ ml_model # "model"
              \/ trace.features = << >>
              \/ trace.asked[1].raises ) =>
             trace.raw = << trace.asked[1].classification, trace.asked[1].confidence >>

\* predict was given None while a working classifier was loaded, and answered
\* (0, 0.0).
C11_Witness ==
    /\ trace.op = "predict"
    /\ ml_model = "model"
    /\ trace.features = << >>
    /\ ~trace.asked[1].raises
    /\ trace.asked[1].classification = 1
    /\ trace.raw = << 0, 0 >>

-----------------------------------------------------------------------------
(* Claims about the capture process *)

Classified == trace.op = "process" /\ trace.calls = 1

\* Every record the pipeline holds: in the emitter buffer, in the batch being
\* sent, in the retained window, or ever stored.
PipelineRecords == LIVE_PACKETS \o batch_to_send \o LIVE_PACKET_LOG \o arrived

\* C7: for a raw result (label, confidence) and the sensitivity read, the result
\* reported is (Normal, 1 - confidence) if label is Anomaly and confidence <
\* sensitivity, and the raw result otherwise; the log entry is labelled with it.
C7_DecisionPolicy ==
    Classified =>
        LET label      == trace.raw[1]
            confidence == trace.raw[2]
        IN  /\ IF label = 1 /\ confidence < trace.sensitivity
               THEN trace.final = << 0, Scale - confidence >>
               ELSE trace.final = << label, confidence >>
            /\ trace.details[1].classification =
                 (IF label = 1 /\ confidence >= trace.sensitivity THEN "Anomaly" ELSE "Normal")

\* The classifier answered (Anomaly, 0.42) at sensitivity 0.5 and the packet was
\* reported as (Normal, 0.58).
C7_Witness ==
    /\ Classified
    /\ trace.raw = << 1, 42000 >>
    /\ trace.sensitivity = 50000
    /\ trace.final = << 0, 58000 >>
    /\ trace.details[1].classification = "Normal"

\* C8: a packet is thresholded with the sensitivity in effect at the configuration
\* surface (the value POST /api/settings last set) when it is processed.
C8_HotReload == Classified => trace.sensitivity = CONFIG

\* C9: a packet without an IP header has no features, is not given to the
\* classifier and appends no record; no record anywhere in the pipeline or in the
\* store comes from such a packet.
C9_NonIpNeverEnters ==
    /\ (trace.op = "process" /\ ~captured[trace.arg].ip) =>
         /\ trace.features = << >>
         /\ trace.calls = 0
         /\ trace.details = << >>
    /\ \A i \in 1..Len(PipelineRecords) :
         /\ PipelineRecords[i].timestamp \in 1..Len(captured)
         /\ captured[PipelineRecords[i].timestamp].ip

\* A packet without an IP header was captured, and the store holds the record of
\* an IP packet captured after it.
C9_Witness ==
    /\ \E t \in 1..Len(captured) :
         /\ ~captured[t].ip
         /\ \E i \in 1..Len(LIVE_PACKET_LOG) : LIVE_PACKET_LOG[i].timestamp > t
    /\ Len(arrived) < Len(captured)

=============================================================================
